---- MODULE Spec2Model ----
(***************************************************************************)
(* Model of the dependahunt analyzer (src/.github/actions/analyzer/app):   *)
(*   - github_api.py   : add_cve_info_to_pr / update_pr_body on one PR,    *)
(*                       find_cves_by_package_and_version over a feed      *)
(*   - version_utils.py: compare_versions, version_in_range                *)
(* Text is modelled as sequences: a PR body is a sequence of text chunks,  *)
(* a version or range string is a sequence of one-character strings.       *)
(***************************************************************************)
EXTENDS Integers, Sequences, FiniteSets, TLC

VARIABLES
    \* ---- the PR document and the runs annotating it (github_api.py) ----
    stored,          \* the PR body held by GitHub
    pc,              \* per run: "idle", "check", "write", "done"
    pr_body,         \* per run: the body the run read (argument pr_body)
    cve_info_list,   \* per run: argument cve_info_list
    new_body,        \* per run: the body the run is about to PATCH
    ret,             \* per run: add_cve_info_to_pr returned "True" / "False"
    calls,           \* number of calls of add_cve_info_to_pr started so far
    okWrites,        \* history: number of successful PATCHes so far
    callWrote,       \* history, per run: the current call PATCHed the body
    raced,           \* history: both runs were past the check at the same time
    startedAfterWrite, \* history, per run: the call began after a successful PATCH
    writeFailed,     \* history: some PATCH has failed
    startedAfterFail, \* history, per run: the call began after a failed PATCH
    \* ---- the advisory matcher (github_api.py) ----
    alerts,          \* the decoded alert feed
    package_name, from_version, to_version,
    idx,             \* number of alerts the loop has consumed
    matching_cves,   \* the accumulating result list
    result,          \* the returned list
    mpc,             \* "scan", "done"
    raised,          \* history: the scan ended in the except branch
    \* ---- the version comparator (version_utils.py) ----
    va, vb,          \* two version strings
    rab, rba, raa,   \* compare_versions(va, vb), (vb, va), (va, va)
    cpc,             \* "input", "compared"
    \* ---- the range check (version_utils.py) ----
    q_version,       \* argument version
    q_atoms,         \* the atoms range_str is written from: [op, ver] records
    q_spaced,        \* range_str is written with blanks after "," and the operator
    q_range,         \* argument range_str
    q_result,        \* what version_in_range returned or raised
    qpc,             \* "input", "done"
    \* ---- the markers (markers.py) ----
    m_type,          \* the marker asked about: its _MarkerType value
    m_other,         \* another _MarkerType value present in the document
    m_pieces,        \* the pieces the document is written from
    m_sep,           \* the text between two pieces
    m_text,          \* argument text: the document
    m_op,            \* the method called: "exists_in", "extract", "extract_all"
    m_exists,        \* what exists_in returned
    m_extract,       \* what extract returned: [none |-> TRUE] is None
    m_all,           \* what extract_all returned
    kpc,             \* "input", "done"
    \* ---- the risk verdict (risk_assessment.py) ----
    r_parts,         \* the fragments ai_analysis is written from
    r_cves,          \* argument cves
    ai_analysis,     \* argument ai_analysis
    r_verdict,       \* the verdict returned: [rule, icon, risk_level, cve_info]
    vpc              \* "input", "done"

prVars == <<stored, pc, pr_body, cve_info_list, new_body, ret, calls,
            okWrites, callWrote, raced, startedAfterWrite, writeFailed,
            startedAfterFail>>
matchVars == <<alerts, package_name, from_version, to_version, idx,
               matching_cves, result, mpc, raised>>
cmpVars == <<va, vb, rab, rba, raa, cpc>>
rangeVars == <<q_version, q_atoms, q_spaced, q_range, q_result, qpc>>
markVars == <<m_type, m_other, m_pieces, m_sep, m_text, m_op, m_exists, m_extract, m_all, kpc>>
riskVars == <<r_parts, r_cves, ai_analysis, r_verdict, vpc>>
vars == <<prVars, matchVars, cmpVars, rangeVars, markVars, riskVars>>

\* the variables of the other components
notPrVars == <<matchVars, cmpVars, rangeVars, markVars, riskVars>>
notMatchVars == <<prVars, cmpVars, rangeVars, markVars, riskVars>>
notCmpVars == <<prVars, matchVars, rangeVars, markVars, riskVars>>
notRangeVars == <<prVars, matchVars, cmpVars, markVars, riskVars>>
notMarkVars == <<prVars, matchVars, cmpVars, rangeVars, riskVars>>
notRiskVars == <<prVars, matchVars, cmpVars, rangeVars, markVars>>

None == "None"

(***************************************************************************)
(* Generic sequence helpers (Python str / list primitives).                *)
(***************************************************************************)
\* s[i..] as Python slicing s[i-1:]
Drop(s, n) == SubSeq(s, n + 1, Len(s))

\* prefix.startswith: p is a prefix of s
StartsWith(s, p) == Len(p) <= Len(s) /\ SubSeq(s, 1, Len(p)) = p

\* Python `needle in hay` for str: a contiguous occurrence
Contains(hay, needle) ==
    \E i \in 0..(Len(hay) - Len(needle)) :
        SubSeq(hay, i + 1, i + Len(needle)) = needle

\* x in list
InList(x, l) == \E i \in 1..Len(l) : l[i] = x

(***************************************************************************)
(* Bounds of the PR-annotation model.                                      *)
(***************************************************************************)
MaxBody == 2      \* chunks in the PR body before any run
MaxCves == 1      \* entries of a cve_info_list
MaxCalls == 3     \* calls of add_cve_info_to_pr over both runs

Runs == {"run1", "run2"}

\* config.py: CVE_INFO_MARKER, one chunk of text
CVE_INFO_MARKER == <<"<!-- CVE_INFO_ADDED -->">>

\* chunks a PR body can start with: ordinary text, or the marker itself
BodyChunks == {"Bumps lodash from 4.17.20 to 4.17.21"} \cup {CVE_INFO_MARKER[1]}

SeqsUpTo(S, n) == UNION {[1..k -> S] : k \in 0..n}

InitialBodies == SeqsUpTo(BodyChunks, MaxBody)

\* (cve_id, alert_number, alert_url) triples as the matcher returns them;
\* number 0 and url "" are the matcher's defaults for absent fields
CveInfos == { <<"CVE-2021-23337", 1, "https://gh/alerts/1">>,
              <<"CVE-2020-8203", 2, "https://gh/alerts/2">>,
              <<"CVE-2021-23337", 0, "">> }

CveLists == SeqsUpTo(CveInfos, MaxCves)

\* Python's str order on the identifiers and urls of CveInfos
StrRank == [s \in {"", "CVE-2020-8203", "CVE-2021-23337",
                   "https://gh/alerts/1", "https://gh/alerts/2"} |->
              CASE s = "" -> 0
                [] s = "CVE-2020-8203" -> 1
                [] s = "CVE-2021-23337" -> 2
                [] s = "https://gh/alerts/1" -> 3
                [] s = "https://gh/alerts/2" -> 4]

\* (num, url) tuple order used by sorted(alerts)
PairLeq(p, q) == p[1] < q[1] \/ (p[1] = q[1] /\ StrRank[p[2]] <= StrRank[q[2]])

RECURSIVE InsertPair(_, _)
InsertPair(p, s) ==
    IF s = <<>> THEN <<p>>
    ELSE IF PairLeq(p, Head(s)) THEN <<p>> \o s
    ELSE <<Head(s)>> \o InsertPair(p, Tail(s))

RECURSIVE SortPairs(_)
SortPairs(s) == IF s = <<>> THEN <<>> ELSE InsertPair(Head(s), SortPairs(Tail(s)))

RECURSIVE SortedKeys(_)
SortedKeys(K) ==
    IF K = {} THEN <<>>
    ELSE LET m == CHOOSE k \in K : \A j \in K : StrRank[k] <= StrRank[j]
         IN  <<m>> \o SortedKeys(K \ {m})

has_cve_section(body) == Contains(body, CVE_INFO_MARKER)

\* ', '.join(alert_links) over [#num](url) links
RECURSIVE JoinLinks(_)
JoinLinks(links) ==
    IF links = <<>> THEN ""
    ELSE LET l == "[#" \o ToString(Head(links)[1]) \o "](" \o Head(links)[2] \o ")"
         IN  IF Len(links) = 1 THEN l ELSE l \o ", " \o JoinLinks(Tail(links))

RECURSIVE CveLines(_, _)
CveLines(keys, valid) ==
    IF keys = <<>> THEN <<>>
    ELSE LET c == Head(keys)
             mine == SelectSeq(valid, LAMBDA t : t[1] = c)
             links == [i \in 1..Len(mine) |-> <<mine[i][2], mine[i][3]>>]
         IN  <<"- **" \o c \o "** (Dependabot Alert " \o JoinLinks(SortPairs(links)) \o ")\n">>
             \o CveLines(Tail(keys), valid)

CveHeader(n) == "## detected CVE (" \o ToString(n) \o ")\n\n"

\* a variant that returns nothing when no entry carries an alert link
format_cve_section_EmptyWhenNoLinks(list) ==
    LET valid == SelectSeq(list, LAMBDA t : t[2] > 0 /\ t[3] # "")
        keys == {valid[i][1] : i \in 1..Len(valid)}
    IN  IF keys = {} THEN <<>>
        ELSE <<"\n\n---\n\n">> \o CVE_INFO_MARKER \o <<"\n\n">>
             \o <<CveHeader(Cardinality(keys))>> \o CveLines(SortedKeys(keys), valid)

format_cve_section(list) ==
    IF list = <<>> THEN <<>>
    ELSE LET valid == SelectSeq(list, LAMBDA t : t[2] > 0 /\ t[3] # "")
             keys == {valid[i][1] : i \in 1..Len(valid)}
         IN  <<"\n\n---\n\n">> \o CVE_INFO_MARKER \o <<"\n\n">>
             \o <<CveHeader(Cardinality(keys))>> \o CveLines(SortedKeys(keys), valid)

\* the body add_cve_info_to_pr hands to update_pr_body when the marker is absent
add_cve_info_body(body, list) ==
    IF list = <<>> THEN body \o <<"\n\n">> \o CVE_INFO_MARKER \o <<"\n">>
    ELSE body \o format_cve_section(list)

RECURSIVE MarkerCount(_)
MarkerCount(body) ==
    IF Len(body) < Len(CVE_INFO_MARKER) THEN 0
    ELSE (IF StartsWith(body, CVE_INFO_MARKER) THEN 1 ELSE 0) + MarkerCount(Tail(body))

IsPrefix(p, s) == StartsWith(s, p)

MatchIdle ==
    /\ alerts = <<>> /\ package_name = <<>> /\ from_version = <<>> /\ to_version = <<>>
    /\ idx = 0 /\ matching_cves = <<>> /\ result = <<>> /\ mpc = "idle" /\ raised = FALSE

CmpIdle ==
    /\ va = <<>> /\ vb = <<>> /\ rab = 0 /\ rba = 0 /\ raa = 0 /\ cpc = "idle"

PrIdle ==
    /\ stored = <<>> /\ pc = [r \in Runs |-> "idle"] /\ pr_body = [r \in Runs |-> <<>>]
    /\ cve_info_list = [r \in Runs |-> <<>>] /\ new_body = [r \in Runs |-> <<>>]
    /\ ret = [r \in Runs |-> "None"] /\ calls = 0 /\ okWrites = 0
    /\ callWrote = [r \in Runs |-> FALSE] /\ raced = FALSE
    /\ startedAfterWrite = [r \in Runs |-> FALSE]
    /\ writeFailed = FALSE
    /\ startedAfterFail = [r \in Runs |-> FALSE]

RangeIdle ==
    /\ q_version = <<>> /\ q_atoms = <<>> /\ q_spaced = FALSE /\ q_range = <<>>
    /\ q_result = [exc |-> "", value |-> FALSE] /\ qpc = "idle"

PyNone == [none |-> TRUE, value |-> <<>>]

MarkIdle ==
    /\ m_type = "" /\ m_other = "" /\ m_pieces = <<>> /\ m_sep = <<>> /\ m_text = <<>>
    /\ m_op = "" /\ m_exists = FALSE /\ m_extract = PyNone /\ m_all = <<>> /\ kpc = "idle"

NoVerdict == [rule |-> "", icon |-> "", risk_level |-> <<>>, cve_info |-> FALSE]

RiskIdle ==
    /\ r_parts = <<>> /\ r_cves = <<>> /\ ai_analysis = <<>> /\ r_verdict = NoVerdict
    /\ vpc = "idle"

\* the other components at rest
NotPrIdle == MatchIdle /\ CmpIdle /\ RangeIdle /\ MarkIdle /\ RiskIdle
NotMatchIdle == PrIdle /\ CmpIdle /\ RangeIdle /\ MarkIdle /\ RiskIdle
NotCmpIdle == PrIdle /\ MatchIdle /\ RangeIdle /\ MarkIdle /\ RiskIdle
NotRangeIdle == PrIdle /\ MatchIdle /\ CmpIdle /\ MarkIdle /\ RiskIdle
NotMarkIdle == PrIdle /\ MatchIdle /\ CmpIdle /\ RangeIdle /\ RiskIdle
NotRiskIdle == PrIdle /\ MatchIdle /\ CmpIdle /\ RangeIdle /\ MarkIdle

(***************************************************************************)
(* The PR document and the runs annotating it.                             *)
(***************************************************************************)
PrInit ==
    /\ stored \in InitialBodies
    /\ pc = [r \in Runs |-> "idle"]
    /\ pr_body = [r \in Runs |-> <<>>]
    /\ cve_info_list = [r \in Runs |-> <<>>]
    /\ new_body = [r \in Runs |-> <<>>]
    /\ ret = [r \in Runs |-> "None"]
    /\ calls = 0
    /\ okWrites = 0
    /\ callWrote = [r \in Runs |-> FALSE]
    /\ raced = FALSE
    /\ startedAfterWrite = [r \in Runs |-> FALSE]
    /\ writeFailed = FALSE
    /\ startedAfterFail = [r \in Runs |-> FALSE]

\* a run fetches the PR (get_pr_details) and enters add_cve_info_to_pr with the
\* body it read and the CVE list it matched
StartRun(r) ==
    /\ pc[r] \in {"idle", "done"}
    /\ calls < MaxCalls
    /\ \E l \in CveLists : cve_info_list' = [cve_info_list EXCEPT ![r] = l]
    /\ pr_body' = [pr_body EXCEPT ![r] = stored]
    /\ pc' = [pc EXCEPT ![r] = "check"]
    /\ new_body' = [new_body EXCEPT ![r] = <<>>]
    /\ ret' = [ret EXCEPT ![r] = "None"]
    /\ calls' = calls + 1
    /\ callWrote' = [callWrote EXCEPT ![r] = FALSE]
    /\ startedAfterWrite' = [startedAfterWrite EXCEPT ![r] = okWrites > 0]
    /\ startedAfterFail' = [startedAfterFail EXCEPT ![r] = writeFailed]
    /\ UNCHANGED <<stored, okWrites, raced, writeFailed>>
    /\ UNCHANGED notPrVars

\* add_cve_info_to_pr up to the call of update_pr_body
CheckMarker(r) ==
    /\ pc[r] = "check"
    /\ IF has_cve_section(pr_body[r])
       THEN /\ ret' = [ret EXCEPT ![r] = "True"]
            /\ pc' = [pc EXCEPT ![r] = "done"]
            /\ UNCHANGED <<new_body, raced>>
       ELSE /\ new_body' = [new_body EXCEPT ![r] = add_cve_info_body(pr_body[r], cve_info_list[r])]
            /\ pc' = [pc EXCEPT ![r] = "write"]
            /\ raced' = (raced \/ \A q \in Runs \ {r} : pc[q] = "write")
            /\ UNCHANGED ret
    /\ UNCHANGED <<stored, pr_body, cve_info_list, calls, okWrites, callWrote,
                   startedAfterWrite, writeFailed, startedAfterFail>>
    /\ UNCHANGED notPrVars

\* update_pr_body: the PATCH is answered 200
WriteOk(r) ==
    /\ pc[r] = "write"
    /\ stored' = new_body[r]
    /\ ret' = [ret EXCEPT ![r] = "True"]
    /\ pc' = [pc EXCEPT ![r] = "done"]
    /\ okWrites' = okWrites + 1
    /\ callWrote' = [callWrote EXCEPT ![r] = TRUE]
    /\ UNCHANGED <<pr_body, cve_info_list, new_body, calls, raced, startedAfterWrite,
                   writeFailed, startedAfterFail>>
    /\ UNCHANGED notPrVars

\* a variant in which the request that fails has replaced the body
WriteFail_BodyReplaced(r) ==
    /\ pc[r] = "write"
    /\ stored' = new_body[r]
    /\ ret' = [ret EXCEPT ![r] = "False"]
    /\ pc' = [pc EXCEPT ![r] = "done"]
    /\ writeFailed' = TRUE
    /\ UNCHANGED <<pr_body, cve_info_list, new_body, calls, okWrites,
                   callWrote, raced, startedAfterWrite, startedAfterFail>>
    /\ UNCHANGED notPrVars

\* update_pr_body: the request raises or is answered with another status
WriteFail(r) ==
    /\ pc[r] = "write"
    /\ ret' = [ret EXCEPT ![r] = "False"]
    /\ pc' = [pc EXCEPT ![r] = "done"]
    /\ writeFailed' = TRUE
    /\ UNCHANGED <<stored, pr_body, cve_info_list, new_body, calls, okWrites,
                   callWrote, raced, startedAfterWrite, startedAfterFail>>
    /\ UNCHANGED notPrVars

Init == PrInit /\ NotPrIdle
Next == \E r \in Runs : StartRun(r) \/ CheckMarker(r) \/ WriteOk(r) \/ WriteFail(r)
Spec == Init /\ [][Next]_vars

(***************************************************************************)
(* Claims about the PR document.                                           *)
(***************************************************************************)
\* C1: once a call of add_cve_info_to_pr has written the body successfully, the
\* stored body holds the marker, and every call begun after that write (on the
\* stored body, with any CVE list) reaches no write, PATCHes nothing and
\* returns True.
C1_SequentialRerunsIdempotent ==
    /\ okWrites > 0 => has_cve_section(stored)
    /\ \A r \in Runs :
          startedAfterWrite[r] =>
            /\ pc[r] # "write"
            /\ ~callWrote[r]
            /\ pc[r] = "done" => ret[r] = "True"

\* a call begun after a successful write, with a non-empty CVE list, has returned
C1_Witness ==
    \E r \in Runs :
        /\ startedAfterWrite[r] /\ pc[r] = "done"
        /\ cve_info_list[r] # <<>> /\ pr_body[r] = stored

\* both racing calls have written successfully and nothing ran after them
RaceDone ==
    /\ raced /\ calls = Cardinality(Runs)
    /\ \A r \in Runs : pc[r] = "done" /\ callWrote[r]

\* C2: when both runs passed the marker-absent check before either wrote, the
\* final stored document holds the appended annotation twice.
C2_RaceDuplicatesAnnotation == RaceDone => MarkerCount(stored) = 2

\* what the code leaves instead: one annotation, the last writer's
C2_RaceKeepsOneAnnotation ==
    RaceDone => /\ MarkerCount(stored) = 1
                /\ \E r \in Runs : stored = new_body[r]

\* no write ever leaves two annotations in the stored document
C2_NoDuplicateAppend == okWrites > 0 => MarkerCount(stored) = 1

\* C3: at every write the stored body before the write is a prefix of the
\* stored body after it (the document is append-only).
C3_AppendOnly == [][IsPrefix(stored, stored')]_vars

\* the same, for runs that do not overlap: a write made from the body as it is
\* stored extends it
C3_SequentialAppendOnly ==
    [][\A r \in Runs : (WriteOk(r) /\ pr_body[r] = stored) => IsPrefix(stored, stored')]_vars

(***************************************************************************)
(* version_utils.py: version strings are sequences of characters.          *)
(***************************************************************************)
MaxVerLen == 3    \* characters of an enumerated version string

Digits == {"0", "1", "2", "3", "4", "5", "6", "7", "8", "9"}

DigitVal == [c \in Digits |->
               CASE c = "0" -> 0 [] c = "1" -> 1 [] c = "2" -> 2 [] c = "3" -> 3
                 [] c = "4" -> 4 [] c = "5" -> 5 [] c = "6" -> 6 [] c = "7" -> 7
                 [] c = "8" -> 8 [] c = "9" -> 9]

\* Unicode code points, the order Python compares str by
Chars == Digits \cup {" ", ",", "-", ".", "<", "=", ">", "a", "h", "l", "p", "x"}

CodePoint == [c \in Chars |->
                CASE c \in Digits -> 48 + DigitVal[c]
                  [] c = " " -> 32 [] c = "," -> 44 [] c = "-" -> 45 [] c = "." -> 46
                  [] c = "<" -> 60 [] c = "=" -> 61 [] c = ">" -> 62
                  [] c = "a" -> 97 [] c = "h" -> 104 [] c = "l" -> 108
                  [] c = "p" -> 112 [] c = "x" -> 120]

\* str.split(sep): the pieces between occurrences of sep, at least one piece
RECURSIVE Split(_, _)
Split(s, sep) ==
    IF \A i \in 1..Len(s) : s[i] # sep THEN <<s>>
    ELSE LET i == CHOOSE k \in 1..Len(s) : s[k] = sep /\ \A j \in 1..(k - 1) : s[j] # sep
         IN  <<SubSeq(s, 1, i - 1)>> \o Split(Drop(s, i), sep)

\* str.strip(): leading and trailing blanks removed
RECURSIVE Strip(_)
Strip(s) ==
    IF s = <<>> THEN s
    ELSE IF Head(s) = " " THEN Strip(Tail(s))
    ELSE IF s[Len(s)] = " " THEN Strip(SubSeq(s, 1, Len(s) - 1))
    ELSE s

\* int(x) raises ValueError unless x, stripped, is a non-empty run of digits
IntRaises(x) ==
    LET t == Strip(x) IN t = <<>> \/ \E i \in 1..Len(t) : t[i] \notin Digits

RECURSIVE DigitsValue(_)
DigitsValue(t) ==
    IF t = <<>> THEN 0 ELSE 10 * DigitsValue(SubSeq(t, 1, Len(t) - 1)) + DigitVal[t[Len(t)]]

PyInt(x) == DigitsValue(Strip(x))

\* str < str
RECURSIVE StrLess(_, _)
StrLess(s, t) ==
    IF t = <<>> THEN FALSE
    ELSE IF s = <<>> THEN TRUE
    ELSE IF CodePoint[Head(s)] # CodePoint[Head(t)] THEN CodePoint[Head(s)] < CodePoint[Head(t)]
    ELSE StrLess(Tail(s), Tail(t))

\* parse_version: exc = "ValueError" when a component is no integer; has_pre is
\* FALSE for prerelease None
parse_version(v) ==
    LET parts == Split(v, "-")
        main_version == parts[1]
        comps == Split(main_version, ".")
    IN  IF \E i \in 1..Len(comps) : IntRaises(comps[i])
        THEN [exc |-> "ValueError", nums |-> <<>>, has_pre |-> FALSE, pre |-> <<>>]
        ELSE [exc |-> "", nums |-> [i \in 1..Len(comps) |-> PyInt(comps[i])],
              has_pre |-> Len(parts) > 1,
              pre |-> IF Len(parts) > 1 THEN parts[2] ELSE <<>>]

Max(a, b) == IF a >= b THEN a ELSE b

\* a variant that leaves the shorter list as it is
PadZeros_NoPadding(nums, max_len) == nums

\* v_parts += [0] * (max_len - len(v_parts))
PadZeros(nums, max_len) == [i \in 1..max_len |-> IF i <= Len(nums) THEN nums[i] ELSE 0]

\* for n1, n2 in zip(v1_parts, v2_parts): the first inequality decides
RECURSIVE CompareNums(_, _)
CompareNums(p1, p2) ==
    IF p1 = <<>> \/ p2 = <<>> THEN 0
    ELSE IF Head(p1) < Head(p2) THEN -1
    ELSE IF Head(p1) > Head(p2) THEN 1
    ELSE CompareNums(Tail(p1), Tail(p2))

\* a variant that answers -1 for a release against a prerelease
ComparePrerelease_WrongSign(a, b) ==
    IF ~a.has_pre /\ ~b.has_pre THEN 0
    ELSE IF ~a.has_pre THEN -1
    ELSE IF ~b.has_pre THEN -1
    ELSE IF StrLess(a.pre, b.pre) THEN -1
    ELSE IF StrLess(b.pre, a.pre) THEN 1
    ELSE 0

\* a variant that tests the tags with <= where the code has <
ComparePrerelease_TagLeq(a, b) ==
    IF ~a.has_pre /\ ~b.has_pre THEN 0
    ELSE IF ~a.has_pre THEN 1
    ELSE IF ~b.has_pre THEN -1
    ELSE IF ~StrLess(b.pre, a.pre) THEN -1
    ELSE IF StrLess(b.pre, a.pre) THEN 1
    ELSE 0

\* the prerelease rule applied when the numeric parts are equal
ComparePrerelease(a, b) ==
    IF ~a.has_pre /\ ~b.has_pre THEN 0
    ELSE IF ~a.has_pre THEN 1
    ELSE IF ~b.has_pre THEN -1
    ELSE IF StrLess(a.pre, b.pre) THEN -1
    ELSE IF StrLess(b.pre, a.pre) THEN 1
    ELSE 0

\* compare_versions: value in {-1, 0, 1}, or exc = "ValueError" raised by
\* parse_version
compare_versions(v1, v2) ==
    LET a == parse_version(v1)
        b == parse_version(v2)
    IN  IF a.exc # "" \/ b.exc # "" THEN [exc |-> "ValueError", value |-> 0]
        ELSE LET max_len == Max(Len(a.nums), Len(b.nums))
                 n == CompareNums(PadZeros(a.nums, max_len), PadZeros(b.nums, max_len))
             IN  IF n # 0 THEN [exc |-> "", value |-> n]
                 ELSE [exc |-> "", value |-> ComparePrerelease(a, b)]

\* a variant that tests the one-character operators first
OperatorOf_PrefixFirst(condition) ==
    IF StartsWith(condition, <<">">>) THEN ">"
    ELSE IF StartsWith(condition, <<"<">>) THEN "<"
    ELSE IF StartsWith(condition, <<">", "=">>) THEN ">="
    ELSE IF StartsWith(condition, <<"<", "=">>) THEN "<="
    ELSE IF StartsWith(condition, <<"=">>) THEN "="
    ELSE ""

\* the operator an atom starts with, in the order of the if / elif chain;
\* "" when it starts with none
OperatorOf(condition) ==
    IF StartsWith(condition, <<">", "=">>) THEN ">="
    ELSE IF StartsWith(condition, <<"<", "=">>) THEN "<="
    ELSE IF StartsWith(condition, <<">">>) THEN ">"
    ELSE IF StartsWith(condition, <<"<">>) THEN "<"
    ELSE IF StartsWith(condition, <<"=">>) THEN "="
    ELSE ""

\* the branch of operator op on c = compare_versions(version, compare_ver):
\* value FALSE is "return False"
BranchResult(op, c) ==
    IF c.exc # "" THEN [exc |-> c.exc, value |-> FALSE]
    ELSE IF op = ">=" THEN [exc |-> "", value |-> ~(c.value < 0)]
    ELSE IF op = "<=" THEN [exc |-> "", value |-> ~(c.value > 0)]
    ELSE IF op = ">" THEN [exc |-> "", value |-> ~(c.value <= 0)]
    ELSE IF op = "<" THEN [exc |-> "", value |-> ~(c.value >= 0)]
    ELSE [exc |-> "", value |-> ~(c.value # 0)]

\* a variant in which an atom with no leading operator fails the range
CheckCondition_NoOperatorFails(version, condition) ==
    IF OperatorOf(condition) = "" THEN [exc |-> "", value |-> FALSE]
    ELSE BranchResult(OperatorOf(condition),
                      compare_versions(version,
                                       Strip(Drop(condition, Len(OperatorOf(condition))))))

\* the outcome of one atom of a range; an atom with no leading operator
\* passes every branch untested
CheckCondition(version, condition) ==
    IF OperatorOf(condition) = "" THEN [exc |-> "", value |-> TRUE]
    ELSE BranchResult(OperatorOf(condition),
                      compare_versions(version,
                                       Strip(Drop(condition, Len(OperatorOf(condition))))))

\* for condition in conditions, r the outcome so far: the first failing atom
\* returns False, an unparseable version met before that raises
RECURSIVE CheckConditions(_, _, _)
CheckConditions(r, version, conditions) ==
    IF r.exc # "" \/ ~r.value \/ conditions = <<>> THEN r
    ELSE CheckConditions(CheckCondition(version, Head(conditions)), version, Tail(conditions))

\* the atoms of a range: split on "," and stripped
Conditions(parts) == [i \in 1..Len(parts) |-> Strip(parts[i])]

\* version_in_range: value TRUE / FALSE, or exc = "ValueError"
version_in_range(version, range_str) ==
    CheckConditions([exc |-> "", value |-> TRUE], version, Conditions(Split(range_str, ",")))

(***************************************************************************)
(* The comparator applied to enumerated version strings.                   *)
(***************************************************************************)
\* characters of the enumerated version strings
VerChars == {"0", "1", ".", "-", "a"}

\* the versions the documentation of the comparator names, and two more with
\* a tag on cores of different arity
ExampleVersions ==
    { <<"4", ".", "1", "7", ".", "2", "0">>, <<"4", ".", "1", "7", ".", "2", "1">>,
      <<"1", ".", "2">>, <<"1", ".", "2", ".", "0">>,
      <<"1", ".", "0", ".", "0">>, <<"1", ".", "0", ".", "0", "-", "a", "l", "p", "h", "a">>,
      <<"1", ".", "0", "-", "a", "l", "p", "h", "a">>, <<"1", ".", "0", ".", "0", "-", "a">> }

\* every string of up to MaxVerLen characters that parse_version accepts
ValidVersions ==
    {v \in SeqsUpTo(VerChars, MaxVerLen) \cup ExampleVersions : parse_version(v).exc = ""}

\* compare_versions over the enumerated versions, as an explicit table
CompareTable ==
    [a \in ValidVersions |-> [b \in ValidVersions |-> compare_versions(a, b).value] @@ <<>>] @@ <<>>

CmpInit ==
    /\ NotCmpIdle
    /\ va \in ValidVersions /\ vb \in ValidVersions
    /\ rab = 0 /\ rba = 0 /\ raa = 0
    /\ cpc = "input"

\* the calls compare_versions(a, b), compare_versions(b, a), compare_versions(a, a)
Compare ==
    /\ cpc = "input"
    /\ rab' = CompareTable[va][vb]
    /\ rba' = CompareTable[vb][va]
    /\ raa' = CompareTable[va][va]
    /\ cpc' = "compared"
    /\ UNCHANGED <<va, vb>>
    /\ UNCHANGED notCmpVars

CmpNext == Compare
SpecCmp == CmpInit /\ [][CmpNext]_vars

(***************************************************************************)
(* Claims about compare_versions.                                          *)
(***************************************************************************)
\* the numeric component i of a parsed version, 0 beyond its last component
NumAt(A, i) == IF i <= Len(A.nums) THEN A.nums[i] ELSE 0

\* lexicographic order of two tags by code point
TagBefore(s, t) ==
    \E k \in 1..Len(t) :
        /\ k <= Len(s) + 1
        /\ \A j \in 1..(k - 1) : s[j] = t[j]
        /\ (k = Len(s) + 1 \/ CodePoint[s[k]] < CodePoint[t[k]])

\* the reference comparator on parsed versions
RefCompare(A, B) ==
    LET n == Max(Len(A.nums), Len(B.nums))
        diff == {i \in 1..n : NumAt(A, i) # NumAt(B, i)}
    IN  IF diff # {}
        THEN LET k == CHOOSE i \in diff : \A j \in diff : i <= j
             IN  IF NumAt(A, k) < NumAt(B, k) THEN -1 ELSE 1
        ELSE CASE ~A.has_pre /\ ~B.has_pre -> 0
               [] ~A.has_pre /\ B.has_pre -> 1
               [] A.has_pre /\ ~B.has_pre -> -1
               [] A.has_pre /\ B.has_pre ->
                    IF TagBefore(A.pre, B.pre) THEN -1
                    ELSE IF TagBefore(B.pre, A.pre) THEN 1 ELSE 0

\* C8: compare_versions equals the reference comparator on all valid versions:
\* zero padding of the shorter component list, first numeric inequality decides,
\* then untagged after tagged, tags in lexicographic order, else 0.
C8_CompareEqualsReference ==
    cpc = "compared" =>
        /\ rab = RefCompare(parse_version(va), parse_version(vb))
        /\ rba = RefCompare(parse_version(vb), parse_version(va))

\* compare("1.2", "1.2.0") == 0 has been computed
C8_Witness ==
    /\ cpc = "compared" /\ rab = 0
    /\ va = <<"1", ".", "2">> /\ vb = <<"1", ".", "2", ".", "0">>

\* C9: compare_versions is transitive: compare(a,b) <= 0 and compare(b,c) <= 0
\* imply compare(a,c) <= 0, for all valid versions a, b, c.
C9_Transitive ==
    cpc = "compared" =>
        \A c \in ValidVersions :
            (rab <= 0 /\ CompareTable[vb][c] <= 0) => CompareTable[va][c] <= 0

\* a strictly ascending chain through versions of different arity and tagging
C9_Witness ==
    /\ cpc = "compared" /\ rab = -1
    /\ parse_version(va).has_pre /\ ~parse_version(vb).has_pre
    /\ \E c \in ValidVersions :
          /\ Len(parse_version(c).nums) # Len(parse_version(vb).nums)
          /\ CompareTable[vb][c] = -1 /\ CompareTable[va][c] = -1

\* C10: compare(a, a) == 0 and compare(a, b) == -compare(b, a) for all valid
\* version strings a, b.
C10_ReflexiveAntisymmetric ==
    cpc = "compared" => (raa = 0 /\ rab = -rba)

\* a tagged version compared with itself and with a different one
C10_Witness ==
    /\ cpc = "compared" /\ parse_version(va).has_pre /\ raa = 0
    /\ rab = 1 /\ rba = -1

(***************************************************************************)
(* github_api.py: find_cves_by_package_and_version over a decoded feed.    *)
(* A JSON object is a record; an absent or null key is a key outside its   *)
(* DOMAIN.                                                                 *)
(***************************************************************************)
MaxAlerts == 2    \* alerts in the feed

\* dict.get(key, default)
Get(d, key, default) == IF key \in DOMAIN d THEN d[key] ELSE default

\* version and range strings of the docstrings, and malformed ones
V_4_17_20 == <<"4", ".", "1", "7", ".", "2", "0">>
V_4_17_21 == <<"4", ".", "1", "7", ".", "2", "1">>
V_4_17_22 == <<"4", ".", "1", "7", ".", "2", "2">>
V_5_0_0 == <<"5", ".", "0", ".", "0">>
R_Lodash == <<">", "=", " ", "4", ".", "0", ".", "0", ",", " ", "<", " ">> \o V_4_17_21
R_Wide == <<"<", "=">> \o V_4_17_20
R_Unparseable == <<"<", " ", "4", ".", "x">>
V_Unparseable == <<"4", ".", "x">>

CVE_A == "CVE-2021-23337"
CVE_B == "CVE-2020-8203"

Vuln(pkg, range, patched) ==
    [package |-> [name |-> pkg], vulnerable_version_range |-> range,
     first_patched_version |-> [identifier |-> patched]]

\* a vulnerability with "first_patched_version": null
VulnUnfixed(pkg, range) ==
    [package |-> [name |-> pkg], vulnerable_version_range |-> range]

CveId(v) == [type |-> "CVE", value |-> v]
GhsaId == [type |-> "GHSA", value |-> "GHSA-35jh-r3h4-6jhm"]
\* an identifier object without its "value"
CveIdNoValue == [type |-> "CVE"]

Alert(pkg, n, ids, vulns) ==
    [number |-> n, html_url |-> IF n = 1 THEN "https://gh/alerts/1" ELSE "https://gh/alerts/2",
     dependency |-> [package |-> [name |-> pkg]],
     security_advisory |-> [identifiers |-> ids, vulnerabilities |-> vulns]]

Good == Vuln("lodash", R_Lodash, V_4_17_21)

\* the alerts a feed is drawn from
AlertUniverse ==
    { Alert("lodash", 1, <<CveId(CVE_A)>>, <<Good>>),
      Alert("lodash", 2, <<CveId(CVE_A)>>, <<Good>>),
      Alert("lodash", 1, <<GhsaId, CveId(CVE_A), CveId(CVE_B)>>,
            <<Good, Vuln("lodash", R_Wide, V_4_17_21)>>),
      Alert("lodash", 1, <<CveId(CVE_A), CveId(CVE_A)>>, <<Good>>),
      Alert("lodash", 2, <<GhsaId>>, <<Good>>),
      Alert("lodash", 2, <<CveId(CVE_B)>>, <<VulnUnfixed("lodash", R_Lodash)>>),
      Alert("lodash", 2, <<CveId(CVE_B)>>, <<VulnUnfixed("lodash", R_Lodash), Good>>),
      Alert("lodash", 2, <<CveId(CVE_B)>>, <<Vuln("lodash", R_Lodash, <<>>)>>),
      Alert("lodash", 2, <<CveId(CVE_B)>>, <<Vuln("lodash", <<>>, V_4_17_21)>>),
      Alert("lodash", 2, <<CveId(CVE_B)>>, <<Vuln("lodash", R_Lodash, V_4_17_22)>>),
      Alert("lodash", 2, <<CveId(CVE_B)>>, <<Vuln("axios", R_Lodash, V_4_17_21)>>),
      Alert("axios", 2, <<CveId(CVE_B)>>, <<Vuln("axios", R_Lodash, V_4_17_21)>>),
      Alert("lodash", 2, <<CveId(CVE_B)>>, <<Vuln("lodash", R_Unparseable, V_4_17_21)>>),
      Alert("lodash", 2, <<CveId(CVE_B)>>, <<Vuln("lodash", R_Lodash, V_Unparseable)>>),
      Alert("lodash", 2, <<CveIdNoValue>>, <<Good>>),
      [number |-> 2, html_url |-> "https://gh/alerts/2"],
      [number |-> 2, html_url |-> "https://gh/alerts/2",
       dependency |-> [package |-> [name |-> "lodash"]]],
      [dependency |-> [package |-> [name |-> "lodash"]],
       security_advisory |-> [identifiers |-> <<CveId(CVE_A)>>, vulnerabilities |-> <<Good>>]] }

Feeds == SeqsUpTo(AlertUniverse, MaxAlerts)

\* for identifier in identifiers: the CVE values, KeyError on a CVE identifier
\* without "value"
RECURSIVE AlertCves(_)
AlertCves(identifiers) ==
    IF identifiers = <<>> THEN [exc |-> "", cves |-> <<>>]
    ELSE LET id == Head(identifiers)
             rest == AlertCves(Tail(identifiers))
         IN  IF Get(id, "type", "") # "CVE" THEN rest
             ELSE IF "value" \notin DOMAIN id THEN [exc |-> "KeyError", cves |-> <<>>]
             ELSE IF rest.exc # "" THEN rest
             ELSE [exc |-> "", cves |-> <<id.value>> \o rest.cves]

\* a variant that appends every triple
AppendCves_NoDedup(acc, alert_cves, alert_number, alert_url) ==
    acc \o [i \in 1..Len(alert_cves) |-> <<alert_cves[i], alert_number, alert_url>>]

\* a variant that puts a new triple in front
RECURSIVE AppendCves_Prepend(_, _, _, _)
AppendCves_Prepend(acc, alert_cves, alert_number, alert_url) ==
    IF alert_cves = <<>> THEN acc
    ELSE LET cve_info == <<Head(alert_cves), alert_number, alert_url>>
         IN  AppendCves_Prepend(IF InList(cve_info, acc) THEN acc ELSE <<cve_info>> \o acc,
                                Tail(alert_cves), alert_number, alert_url)

\* for cve in alert_cves: append (cve, alert_number, alert_url) unless present
RECURSIVE AppendCves(_, _, _, _)
AppendCves(acc, alert_cves, alert_number, alert_url) ==
    IF alert_cves = <<>> THEN acc
    ELSE LET cve_info == <<Head(alert_cves), alert_number, alert_url>>
         IN  AppendCves(IF InList(cve_info, acc) THEN acc ELSE Append(acc, cve_info),
                        Tail(alert_cves), alert_number, alert_url)

\* the versions a scan is asked about
FromVersions == {V_4_17_20, V_5_0_0}
ToVersions == {V_4_17_21, V_4_17_20}

\* a variant that compares the patched version against to_version
PatchedCompare_Swapped(to, patched_version) == compare_versions(patched_version, to)

\* compare_versions(to_version, patched_version)
PatchedCompare(to, patched_version) == compare_versions(to, patched_version)

\* a variant that takes a bump only when it lands on the patched version
VulnChecks_ExactPatch(name, pkg, vulnerable_range, in_range, patched_version, reached) ==
    IF name # pkg THEN "skip"
    ELSE IF vulnerable_range = <<>> THEN "skip"
    ELSE IF in_range.exc # "" THEN in_range.exc
    ELSE IF ~in_range.value THEN "skip"
    ELSE IF patched_version = <<>> THEN "skip"
    ELSE IF reached.exc # "" THEN reached.exc
    ELSE IF reached.value # 0 THEN "skip"
    ELSE "match"

\* the chain of "continue" tests of one vulnerability entry, given what
\* version_in_range and compare_versions answer: "skip", "match", or the
\* exception raised
VulnChecks(name, pkg, vulnerable_range, in_range, patched_version, reached) ==
    IF name # pkg THEN "skip"
    ELSE IF vulnerable_range = <<>> THEN "skip"
    ELSE IF in_range.exc # "" THEN in_range.exc
    ELSE IF ~in_range.value THEN "skip"
    ELSE IF patched_version = <<>> THEN "skip"
    ELSE IF reached.exc # "" THEN reached.exc
    ELSE IF reached.value < 0 THEN "skip"
    ELSE "match"

\* one vulnerability entry
VulnOutcome(vuln, pkg, from, to) ==
    VulnChecks(Get(Get(vuln, "package", <<>>), "name", ""), pkg,
               Get(vuln, "vulnerable_version_range", <<>>),
               version_in_range(from, Get(vuln, "vulnerable_version_range", <<>>)),
               Get(Get(vuln, "first_patched_version", <<>>), "identifier", <<>>),
               PatchedCompare(to, Get(Get(vuln, "first_patched_version", <<>>), "identifier", <<>>)))

\* matching_cves after an entry with outcome o
AfterVuln(o, acc, alert_cves, alert_number, alert_url) ==
    IF o = "match" THEN [exc |-> "", cves |-> AppendCves(acc, alert_cves, alert_number, alert_url)]
    ELSE IF o = "skip" THEN [exc |-> "", cves |-> acc]
    ELSE [exc |-> o, cves |-> acc]

\* for vuln in vulnerabilities, st the exception state and matching_cves so far
RECURSIVE ScanVulns(_, _, _, _, _, _, _, _)
ScanVulns(st, vulns, alert_cves, alert_number, alert_url, pkg, from, to) ==
    IF st.exc # "" \/ vulns = <<>> THEN st
    ELSE ScanVulns(AfterVuln(VulnOutcome(Head(vulns), pkg, from, to), st.cves,
                             alert_cves, alert_number, alert_url),
                   Tail(vulns), alert_cves, alert_number, alert_url, pkg, from, to)

\* the rest of an iteration once alert_cves is collected (ids)
ScanAdvisory(ids, alert, acc, pkg, from, to) ==
    IF ids.exc # "" THEN [exc |-> ids.exc, cves |-> acc]
    ELSE IF ids.cves = <<>> THEN [exc |-> "", cves |-> acc]
    ELSE IF "vulnerabilities" \notin DOMAIN alert.security_advisory
    THEN [exc |-> "", cves |-> acc]
    ELSE ScanVulns([exc |-> "", cves |-> acc], alert.security_advisory.vulnerabilities,
                   ids.cves, Get(alert, "number", 0), Get(alert, "html_url", ""),
                   pkg, from, to)

\* the body of "for alert in alerts" on one alert: the new matching_cves, or
\* the exception that leaves the loop
ScanOne(alert, acc, pkg, from, to) ==
    IF "dependency" \notin DOMAIN alert \/ "package" \notin DOMAIN alert.dependency
    THEN [exc |-> "", cves |-> acc]
    ELSE IF Get(alert.dependency.package, "name", "") # pkg THEN [exc |-> "", cves |-> acc]
    ELSE ScanAdvisory(AlertCves(Get(Get(alert, "security_advisory", <<>>), "identifiers", <<>>)),
                      alert, acc, pkg, from, to)

\* the iteration on alerts[idx + 1] ends in outcome r
Iterate(r) ==
    IF r.exc = ""
    THEN /\ matching_cves' = r.cves
         /\ idx' = idx + 1
         /\ UNCHANGED <<result, mpc, raised>>
    ELSE /\ result' = <<>>
         /\ mpc' = "done"
         /\ raised' = TRUE
         /\ UNCHANGED <<idx, matching_cves>>

MatchInit ==
    /\ NotMatchIdle
    /\ alerts \in Feeds
    /\ package_name \in {"lodash", "axios"}
    /\ from_version \in FromVersions
    /\ to_version \in ToVersions
    /\ idx = 0 /\ matching_cves = <<>> /\ result = <<>> /\ mpc = "scan" /\ raised = FALSE

\* one iteration of "for alert in alerts"; an exception ends the scan in
\* "except Exception", which returns []
ScanAlert ==
    /\ mpc = "scan" /\ idx < Len(alerts)
    /\ Iterate(ScanOne(alerts[idx + 1], matching_cves, package_name, from_version, to_version))
    /\ UNCHANGED <<alerts, package_name, from_version, to_version>>
    /\ UNCHANGED notMatchVars

\* the loop is over: return matching_cves
ReturnMatches ==
    /\ mpc = "scan" /\ idx = Len(alerts)
    /\ result' = matching_cves
    /\ mpc' = "done"
    /\ UNCHANGED <<alerts, package_name, from_version, to_version, idx, matching_cves, raised>>
    /\ UNCHANGED notMatchVars

MatchNext == ScanAlert \/ ReturnMatches
SpecMatch == MatchInit /\ [][MatchNext]_vars

(***************************************************************************)
(* What the matcher is required to return, read off the feed.              *)
(***************************************************************************)
Identifiers(alert) == Get(Get(alert, "security_advisory", <<>>), "identifiers", <<>>)
Vulnerabilities(alert) == Get(Get(alert, "security_advisory", <<>>), "vulnerabilities", <<>>)
AlertPackage(alert) == Get(Get(Get(alert, "dependency", <<>>), "package", <<>>), "name", "")
RangeOf(vuln) == Get(vuln, "vulnerable_version_range", <<>>)
PatchedOf(vuln) == Get(Get(vuln, "first_patched_version", <<>>), "identifier", <<>>)

\* the CVE identifiers an alert lists
CveValues(alert) ==
    {Identifiers(alert)[i].value :
        i \in {j \in 1..Len(Identifiers(alert)) :
                  /\ Get(Identifiers(alert)[j], "type", "") = "CVE"
                  /\ "value" \in DOMAIN Identifiers(alert)[j]}}

Triple(alert, cve) == <<cve, Get(alert, "number", 0), Get(alert, "html_url", "")>>

\* an entry for the package with a non-empty range satisfied by from and a
\* first patched version p with compare_versions(to, p) >= 0
EntryResolved(vuln, pkg, from, to) ==
    /\ Get(Get(vuln, "package", <<>>), "name", "") = pkg
    /\ RangeOf(vuln) # <<>>
    /\ version_in_range(from, RangeOf(vuln)) = [exc |-> "", value |-> TRUE]
    /\ PatchedOf(vuln) # <<>>
    /\ compare_versions(to, PatchedOf(vuln)).exc = ""
    /\ compare_versions(to, PatchedOf(vuln)).value >= 0

Resolved(alert) ==
    /\ AlertPackage(alert) = package_name
    /\ \E i \in 1..Len(Vulnerabilities(alert)) :
          EntryResolved(Vulnerabilities(alert)[i], package_name, from_version, to_version)

\* no entry carries a first patched version / a range
NoPatchedVersion(alert) ==
    \A i \in 1..Len(Vulnerabilities(alert)) : PatchedOf(Vulnerabilities(alert)[i]) = <<>>
EmptyRange(alert) ==
    \A i \in 1..Len(Vulnerabilities(alert)) : RangeOf(Vulnerabilities(alert)[i]) = <<>>

\* a range every atom of which is an operator and a version of dotted integers
RangeParses(range_str) ==
    \A i \in 1..Len(Split(range_str, ",")) :
        LET atom == Strip(Split(range_str, ",")[i])
        IN  /\ OperatorOf(atom) # ""
            /\ parse_version(Strip(Drop(atom, Len(OperatorOf(atom))))).exc = ""

\* every field present and of its type, every version text parseable
WellFormed(alert) ==
    /\ {"number", "html_url", "dependency", "security_advisory"} \subseteq DOMAIN alert
    /\ "package" \in DOMAIN alert.dependency
    /\ "name" \in DOMAIN alert.dependency.package
    /\ {"identifiers", "vulnerabilities"} \subseteq DOMAIN alert.security_advisory
    /\ \A i \in 1..Len(Identifiers(alert)) :
          {"type", "value"} \subseteq DOMAIN Identifiers(alert)[i]
    /\ \A i \in 1..Len(Vulnerabilities(alert)) :
          LET vuln == Vulnerabilities(alert)[i]
          IN  /\ {"package", "vulnerable_version_range"} \subseteq DOMAIN vuln
              /\ RangeOf(vuln) = <<>> \/ RangeParses(RangeOf(vuln))
              /\ PatchedOf(vuln) = <<>> \/ parse_version(PatchedOf(vuln)).exc = ""

NoDuplicates(l) == \A i, j \in 1..Len(l) : l[i] = l[j] => i = j

\* triple t is owed to alert
SoundFor(t, alert) ==
    /\ Resolved(alert)
    /\ t[1] \in CveValues(alert)
    /\ t = Triple(alert, t[1])

\* every triple of every well-formed resolved alert of the feed is in l
HasAllTriples(l) ==
    \A k \in 1..Len(alerts) :
        (WellFormed(alerts[k]) /\ Resolved(alerts[k]))
            => \A cve \in CveValues(alerts[k]) : InList(Triple(alerts[k], cve), l)

\* C4: every returned triple comes from an alert of the package that lists
\* the CVE and has an entry whose non-empty range from_version satisfies and
\* whose first patched version p has compare_versions(to_version, p) >= 0;
\* an iteration adds only triples owed to its alert, and nothing for an alert
\* with no first patched version or with an empty range.
C4_MatcherSound ==
    /\ [](mpc = "done" =>
            \A i \in 1..Len(result) :
                \E k \in 1..Len(alerts) : SoundFor(result[i], alerts[k]))
    /\ [][idx' = idx + 1 =>
            /\ \A i \in 1..Len(matching_cves') :
                  \/ InList(matching_cves'[i], matching_cves)
                  \/ SoundFor(matching_cves'[i], alerts[idx + 1])
            /\ (NoPatchedVersion(alerts[idx + 1]) \/ EmptyRange(alerts[idx + 1]))
                  => matching_cves' = matching_cves]_vars

\* a non-empty result returned for a feed that also holds an unfixed alert of
\* the package
C4_Witness ==
    /\ mpc = "done" /\ Len(result) > 0
    /\ \E k \in 1..Len(alerts) :
          /\ AlertPackage(alerts[k]) = package_name
          /\ CveValues(alerts[k]) # {}
          /\ Vulnerabilities(alerts[k]) # <<>>
          /\ NoPatchedVersion(alerts[k])

\* C5: the result holds one triple per CVE identifier of every well-formed
\* alert of the package whose range from_version satisfies and whose first
\* patched version to_version has reached.
C5_MatcherComplete == mpc = "done" => HasAllTriples(result)

\* the same, for the scans no iteration of which raised
C5_CompleteUnlessRaised == (mpc = "done" /\ ~raised) => HasAllTriples(result)

\* the lodash example: one triple for 4.17.20 -> 4.17.21, none otherwise
C5_LodashExample ==
    (/\ mpc = "done"
     /\ alerts = <<Alert("lodash", 1, <<CveId(CVE_A)>>, <<Good>>)>>
     /\ package_name = "lodash")
        => result = IF from_version = V_4_17_20 /\ to_version = V_4_17_21
                    THEN <<(<<CVE_A, 1, "https://gh/alerts/1">>)>>
                    ELSE <<>>

\* C6: a feed holding a malformed record next to well-formed records that
\* meet every condition still returns the triples of the well-formed ones.
C6_MalformedNeverAborts ==
    (/\ mpc = "done"
     /\ \E k \in 1..Len(alerts) : ~WellFormed(alerts[k]))
        => HasAllTriples(result)

\* C7: neither the accumulating list nor the result holds a triple twice; an
\* iteration keeps every triple collected so far, in order, and, when its
\* alert is resolved, holds each of its triples, whichever alerts already
\* contributed the same CVE.
C7_NoDuplicateTriples ==
    /\ [](NoDuplicates(matching_cves) /\ NoDuplicates(result))
    /\ [][idx' = idx + 1 =>
            /\ IsPrefix(matching_cves, matching_cves')
            /\ Resolved(alerts[idx + 1]) =>
                  \A cve \in CveValues(alerts[idx + 1]) :
                      InList(Triple(alerts[idx + 1], cve), matching_cves')]_vars

\* the result keeps one CVE under two alert numbers, and the feed repeated a
\* triple
C7_Witness ==
    /\ mpc = "done"
    /\ \E i, j \in 1..Len(result) :
          result[i][1] = result[j][1] /\ result[i][2] # result[j][2]
    /\ \E k \in 1..Len(alerts) :
          \E i, j \in 1..Len(Identifiers(alerts[k])) :
              i # j /\ Identifiers(alerts[k])[i] = Identifiers(alerts[k])[j]

(***************************************************************************)
(* version_utils.py: version_in_range on range strings written from atoms. *)
(***************************************************************************)
MaxAtoms == 2    \* atoms of a range

V_4_0_0 == <<"4", ".", "0", ".", "0">>

CandidateVersions == {V_4_0_0, V_4_17_20, V_4_17_21, V_5_0_0}
RangeBounds == {V_4_0_0, V_4_17_20, V_4_17_21}
RangeOps == {">=", "<=", ">", "<", "="}

\* an operator and a version of dotted integers
WellFormedAtoms == [op : RangeOps, ver : RangeBounds]

\* no operator, a non-numeric component, an empty version
MalformedAtoms ==
    { [op |-> "", ver |-> V_4_0_0],
      [op |-> "<", ver |-> V_Unparseable],
      [op |-> ">=", ver |-> <<>>] }

Atoms == WellFormedAtoms \cup MalformedAtoms

\* the characters of an operator
OpText(op) ==
    CASE op = ">=" -> <<">", "=">>
      [] op = "<=" -> <<"<", "=">>
      [] op = ">" -> <<">">>
      [] op = "<" -> <<"<">>
      [] op = "=" -> <<"=">>
      [] OTHER -> <<>>

\* the text of one atom, as in ">=4.0.0" or ">= 4.0.0"
FormatAtom(atom, spaced) ==
    OpText(atom.op) \o (IF spaced THEN <<" ">> ELSE <<>>) \o atom.ver

\* the atoms joined by "," or ", "
RECURSIVE FormatRange(_, _)
FormatRange(atoms, spaced) ==
    IF atoms = <<>> THEN <<>>
    ELSE IF Len(atoms) = 1 THEN FormatAtom(atoms[1], spaced)
    ELSE FormatAtom(atoms[1], spaced) \o <<",">> \o (IF spaced THEN <<" ">> ELSE <<>>)
         \o FormatRange(Tail(atoms), spaced)

RangeInit ==
    /\ NotRangeIdle
    /\ q_version \in CandidateVersions
    /\ q_atoms \in SeqsUpTo(Atoms, MaxAtoms)
    /\ q_spaced \in BOOLEAN
    /\ q_range = FormatRange(q_atoms, q_spaced)
    /\ q_result = [exc |-> "", value |-> FALSE]
    /\ qpc = "input"

\* the call version_in_range(version, range_str)
CheckRange ==
    /\ qpc = "input"
    /\ q_result' = version_in_range(q_version, q_range)
    /\ qpc' = "done"
    /\ UNCHANGED <<q_version, q_atoms, q_spaced, q_range>>
    /\ UNCHANGED notRangeVars

RangeNext == CheckRange
SpecRange == RangeInit /\ [][RangeNext]_vars

\* v satisfies an atom under the standard meaning of its operator
AtomHolds(v, atom) ==
    LET c == compare_versions(v, atom.ver).value
    IN  CASE atom.op = ">=" -> c >= 0
          [] atom.op = "<=" -> c <= 0
          [] atom.op = ">" -> c > 0
          [] atom.op = "<" -> c < 0
          [] atom.op = "=" -> c = 0

\* C11: on a range of well-formed atoms version_in_range answers true iff the
\* version satisfies every atom: >= and <= inclusive, > and < strict, = by
\* compare_versions, ">=" and "<=" never read as ">" and "<".
C11_RangeIsConjunction ==
    (qpc = "done" /\ \A i \in 1..Len(q_atoms) : q_atoms[i] \in WellFormedAtoms)
        => q_result = [exc |-> "",
                       value |-> \A i \in 1..Len(q_atoms) : AtomHolds(q_version, q_atoms[i])]

\* 4.17.20 against ">=4.0.0,<4.17.21" answered true
C11_Witness ==
    /\ qpc = "done"
    /\ q_version = V_4_17_20
    /\ q_atoms = <<[op |-> ">=", ver |-> V_4_0_0], [op |-> "<", ver |-> V_4_17_21]>>
    /\ q_result = [exc |-> "", value |-> TRUE]

\* 4.17.21 against ">=4.0.0,<4.17.21" answered false
C11_ExampleOutside ==
    (/\ qpc = "done"
     /\ q_version = V_4_17_21
     /\ q_atoms = <<[op |-> ">=", ver |-> V_4_0_0], [op |-> "<", ver |-> V_4_17_21]>>)
        => q_result = [exc |-> "", value |-> FALSE]

\* C12: a range with an atom that yields no parseable version is answered
\* false for every candidate version, without raising.
C12_FailsClosed ==
    (qpc = "done" /\ \E i \in 1..Len(q_atoms) : q_atoms[i] \in MalformedAtoms)
        => q_result = [exc |-> "", value |-> FALSE]

\* what does hold: such a range is answered false only when a well-formed
\* atom before the first raising one fails, true only when no atom raises
C12_ActualBehaviour ==
    (qpc = "done" /\ \E i \in 1..Len(q_atoms) : q_atoms[i] \in MalformedAtoms)
        => \/ q_result.exc = "ValueError"
           \/ /\ q_result.exc = ""
              /\ q_result.value =
                    \A i \in 1..Len(q_atoms) :
                        q_atoms[i] \in WellFormedAtoms => AtomHolds(q_version, q_atoms[i])

\* C13: the empty range is satisfied by every version.
C13_EmptyRangeSatisfied ==
    (qpc = "done" /\ q_range = <<>>) => q_result = [exc |-> "", value |-> TRUE]

C13_Witness ==
    qpc = "done" /\ q_atoms = <<>> /\ q_range = <<>> /\ q_result.value

(***************************************************************************)
(* markers.py: _Marker over documents.  A document is a sequence of text   *)
(* units: "<!--", "-->", " ", "\n", the pieces of a tag, JSON punctuation  *)
(* and words; no unit contains part of "<!--", "-->" or a tag, so the      *)
(* regular expressions match unit by unit as they match character by       *)
(* character.                                                              *)
(***************************************************************************)
\* _MarkerType values
MarkerTypes == {"analyzed", "target-package", "analyzed-package"}

\* self.tag = "dependahunt:" + marker_type.value; "analyzed" is a prefix of
\* "analyzed-package"
TagText(marker_type) ==
    CASE marker_type = "analyzed" -> <<"dependahunt:analyzed">>
      [] marker_type = "target-package" -> <<"dependahunt:target", "-package">>
      [] marker_type = "analyzed-package" -> <<"dependahunt:analyzed", "-package">>

\* \s
IsSpace(c) == c \in {" ", "\n"}

\* the index after the run of \s that starts at i
RECURSIVE SkipSpaces(_, _)
SkipSpaces(text, i) ==
    IF i >= 1 /\ i <= Len(text) /\ IsSpace(text[i]) THEN SkipSpaces(text, i + 1) ELSE i

\* the literal lit stands at index i
HasAt(text, i, lit) ==
    /\ i >= 1 /\ i + Len(lit) - 1 <= Len(text)
    /\ SubSeq(text, i, i + Len(lit) - 1) = lit

\* "-->" stands at index i
ClosesAt(text, i) == i >= 1 /\ i <= Len(text) /\ text[i] = "-->"

\* <!--\s+TAG matched from index i with the tag at index j: the index after
\* the tag, 0 when it does not match
AfterTagFrom(text, i, j, tag) ==
    IF i <= Len(text) /\ text[i] = "<!--" /\ j > i + 1 /\ HasAt(text, j, tag)
    THEN j + Len(tag) ELSE 0

AfterTag(text, i, tag) == AfterTagFrom(text, i, SkipSpaces(text, i + 1), tag)

\* _build_pattern(with_data=False) behind the tag, a the index after the tag
\* and b the index after the run of \s behind it: the index of the last unit
\* of the match, 0 for no match
BareEnd(text, a, b) == IF a > 0 /\ b > a /\ ClosesAt(text, b) THEN b ELSE 0

BareFrom(text, a) == BareEnd(text, a, SkipSpaces(text, a))

BareMatchAt(text, i, tag) == BareFrom(text, AfterTag(text, i, tag))

\* ([^\n]+?)\s*-->: the group reaches index e - 1 so far and is lazy, so it
\* ends at the first e that \s*--> can follow; 0 when a newline or the end
\* of the text comes first
RECURSIVE GroupEnd(_, _)
GroupEnd(text, e) ==
    IF e > Len(text) \/ text[e] = "\n" THEN 0
    ELSE IF ClosesAt(text, SkipSpaces(text, e + 1)) THEN e
    ELSE GroupEnd(text, e + 1)

NoMatch == [ok |-> FALSE, gs |-> 0, ge |-> 0, end |-> 0]

\* \s+ behind the tag is greedy: the group starts at g, the latest start not
\* yet tried, and one unit earlier when no group starting at g matches
RECURSIVE GroupStart(_, _, _)
StartOrEarlier(text, a, g, e) ==
    IF e > 0 THEN [ok |-> TRUE, gs |-> g, ge |-> e, end |-> SkipSpaces(text, e + 1)]
    ELSE GroupStart(text, a, g - 1)

GroupStart(text, a, g) ==
    IF g <= a THEN NoMatch ELSE StartOrEarlier(text, a, g, GroupEnd(text, g))

\* _build_pattern(with_data=True) behind the tag
DataFrom(text, a) == IF a = 0 THEN NoMatch ELSE GroupStart(text, a, SkipSpaces(text, a))

DataMatchAt(text, i, tag) == DataFrom(text, AfterTag(text, i, tag))

\* re.search(data_pattern, text) from index i on: the leftmost match
RECURSIVE SearchData(_, _, _)
MatchOrNext(text, i, tag, match) ==
    IF match.ok THEN match ELSE SearchData(text, i + 1, tag)

SearchData(text, i, tag) ==
    IF i > Len(text) THEN NoMatch ELSE MatchOrNext(text, i, tag, DataMatchAt(text, i, tag))

(***************************************************************************)
(* json.dumps / json.loads on payloads: a payload is a dict of str to str, *)
(* written as the sequence of its <<key, value>> items, a str being a      *)
(* sequence of text units.                                                 *)
(***************************************************************************)
\* one unit of a str inside a JSON string literal
EscapeUnit(c) ==
    CASE c = "\"" -> <<"\\", "\"">>
      [] c = "\\" -> <<"\\", "\\">>
      [] c = "\n" -> <<"\\", "n">>
      [] OTHER -> <<c>>

RECURSIVE EscapeStr(_)
EscapeStr(str) == IF str = <<>> THEN <<>> ELSE EscapeUnit(Head(str)) \o EscapeStr(Tail(str))

\* "str"
JsonString(str) == <<"\"">> \o EscapeStr(str) \o <<"\"">>

\* "key": "value"
JsonItem(item) == JsonString(item[1]) \o <<":", " ">> \o JsonString(item[2])

RECURSIVE JsonItems(_)
JsonItems(items) ==
    IF Len(items) = 1 THEN JsonItem(items[1])
    ELSE JsonItem(items[1]) \o <<",", " ">> \o JsonItems(Tail(items))

\* json.dumps(data, ensure_ascii=False)
JsonDumps(data) == IF data = <<>> THEN <<"{", "}">> ELSE <<"{">> \o JsonItems(data) \o <<"}">>

JsonError == [ok |-> FALSE, value |-> <<>>, next |-> 0]

\* the units of a string literal from index i (behind the opening quote) on,
\* acc the str read so far: the str and the index behind the closing quote
RECURSIVE ScanString(_, _, _)
ScanString(s, i, acc) ==
    IF i > Len(s) THEN JsonError
    ELSE IF s[i] = "\"" THEN [ok |-> TRUE, value |-> acc, next |-> i + 1]
    ELSE IF s[i] = "\n" THEN JsonError
    ELSE IF s[i] # "\\" THEN ScanString(s, i + 1, Append(acc, s[i]))
    ELSE IF i + 1 > Len(s) THEN JsonError
    ELSE IF s[i + 1] = "\"" THEN ScanString(s, i + 2, Append(acc, "\""))
    ELSE IF s[i + 1] = "\\" THEN ScanString(s, i + 2, Append(acc, "\\"))
    ELSE IF s[i + 1] = "n" THEN ScanString(s, i + 2, Append(acc, "\n"))
    ELSE JsonError

\* a string literal at index i
StringAt(s, i) == IF i <= Len(s) /\ s[i] = "\"" THEN ScanString(s, i + 1, <<>>) ELSE JsonError

\* dict assignment d[key] = value: a later duplicate key replaces the value
PutItem(items, key, value) ==
    IF \E k \in 1..Len(items) : items[k][1] = key
    THEN [k \in 1..Len(items) |-> IF items[k][1] = key THEN <<key, value>> ELSE items[k]]
    ELSE Append(items, <<key, value>>)

\* the items of an object from index i (a key is expected) on
RECURSIVE ScanItems(_, _, _)
\* behind an item's value v, at index i: "," and the next item, or "}"
AfterValue(s, i, items) ==
    IF i > Len(s) THEN JsonError
    ELSE IF s[i] = "}" THEN [ok |-> TRUE, value |-> items, next |-> i + 1]
    ELSE IF s[i] = "," THEN ScanItems(s, SkipSpaces(s, i + 1), items)
    ELSE JsonError

\* behind an item's key, k the key read: ":" and the value
AfterKey(s, k, v, items) ==
    IF ~k.ok \/ ~v.ok THEN JsonError
    ELSE AfterValue(s, SkipSpaces(s, v.next), PutItem(items, k.value, v.value))

ValueAt(s, i) == IF i <= Len(s) /\ s[i] = ":" THEN StringAt(s, SkipSpaces(s, i + 1)) ELSE JsonError

KeyThenValue(s, k, items) ==
    IF ~k.ok THEN JsonError
    ELSE AfterKey(s, k, ValueAt(s, SkipSpaces(s, k.next)), items)

ScanItems(s, i, items) == KeyThenValue(s, StringAt(s, i), items)

\* an object at index i
ObjectAt(s, i) ==
    IF i > Len(s) \/ s[i] # "{" THEN JsonError
    ELSE IF SkipSpaces(s, i + 1) <= Len(s) /\ s[SkipSpaces(s, i + 1)] = "}"
    THEN [ok |-> TRUE, value |-> <<>>, next |-> SkipSpaces(s, i + 1) + 1]
    ELSE ScanItems(s, SkipSpaces(s, i + 1), <<>>)

\* nothing but \s may follow the value
WholeText(s, r) ==
    IF r.ok /\ SkipSpaces(s, r.next) = Len(s) + 1 THEN [ok |-> TRUE, value |-> r.value]
    ELSE [ok |-> FALSE, value |-> <<>>]

\* json.loads(s): ok FALSE is JSONDecodeError
JsonLoads(s) == WholeText(s, ObjectAt(s, SkipSpaces(s, 1)))

(***************************************************************************)
(* _Marker.create, exists_in, extract, extract_all.                        *)
(***************************************************************************)
MaxPieces == 3    \* pieces of a document

\* create(): '<!-- tag -->'
CreateBare(marker_type) == <<"<!--", " ">> \o TagText(marker_type) \o <<" ", "-->">>

\* the marker text around a payload text: '<!-- tag json_str -->'
MarkerAround(marker_type, json_str) ==
    <<"<!--", " ">> \o TagText(marker_type) \o <<" ">> \o json_str \o <<" ", "-->">>

\* create(data)
CreateData(marker_type, data) == MarkerAround(marker_type, JsonDumps(data))

\* a variant that searches the pattern without data only
exists_in_BareOnly(marker_type, text) ==
    \E i \in 1..Len(text) : BareMatchAt(text, i, TagText(marker_type)) > 0

\* exists_in(text)
exists_in(marker_type, text) ==
    \/ \E i \in 1..Len(text) : BareMatchAt(text, i, TagText(marker_type)) > 0
    \/ \E i \in 1..Len(text) : DataMatchAt(text, i, TagText(marker_type)).ok

\* json.loads(match.group(1)) in try / except: None on JSONDecodeError
LoadedOrNone(r) == IF r.ok THEN [none |-> FALSE, value |-> r.value] ELSE PyNone

GroupOrNone(text, match) ==
    IF ~match.ok THEN PyNone ELSE LoadedOrNone(JsonLoads(SubSeq(text, match.gs, match.ge)))

\* extract(text)
extract(marker_type, text) == GroupOrNone(text, SearchData(text, 1, TagText(marker_type)))

\* results after one match of re.finditer: appended when json.loads succeeds
AppendLoaded(results, r) == IF r.ok THEN Append(results, r.value) ELSE results

\* for match in re.finditer(pattern, text): the scan resumes behind a match
RECURSIVE AllFrom(_, _, _, _)
AllFrom(text, tag, match, results) ==
    IF ~match.ok THEN results
    ELSE AllFrom(text, tag, SearchData(text, match.end + 1, tag),
                 AppendLoaded(results, JsonLoads(SubSeq(text, match.gs, match.ge))))

\* extract_all(text)
extract_all(marker_type, text) ==
    AllFrom(text, TagText(marker_type), SearchData(text, 1, TagText(marker_type)), <<>>)

\* payloads: dicts of str to str as sequences of <<key, value>>
P_Lodash == <<(<<(<<"package">>), (<<"lodash">>)>>)>>
P_Axios == <<(<<(<<"package">>), (<<"axios">>)>>)>>
P_Two == <<(<<(<<"packageName">>), (<<"lodash">>)>>), (<<(<<"newVersion">>), (<<"4.17.21">>)>>)>>
P_Quoted == <<(<<(<<"note">>), (<<"a", "\"", "\\", "\n", " ", "b">>)>>)>>
P_Arrow == <<(<<(<<"note">>), (<<"a", "-->", "b">>)>>)>>
P_Empty == <<>>

Payloads == {P_Lodash, P_Axios, P_Two, P_Quoted, P_Arrow, P_Empty}

\* a payload text json.loads rejects
BrokenJson == <<"{", "\"", "package", "\"", ":">>

\* the pieces of a document: markers of the type asked about ("own") and of
\* another type, as create writes them or with a broken payload text, and
\* plain text
Pieces ==
    {[kind |-> "bare", of |-> "own", data |-> <<>>],
     [kind |-> "bare", of |-> "other", data |-> <<>>],
     [kind |-> "broken", of |-> "own", data |-> <<>>],
     [kind |-> "text", of |-> "", data |-> <<>>]}
    \cup [kind : {"data"}, of : {"own"}, data : Payloads]
    \cup [kind : {"data"}, of : {"other"}, data : {P_Lodash}]

\* a payload one value of which spells marker text
SpelledPayload(text) == <<(<<(<<"note">>), text>>)>>

PieceText(piece, own, other) ==
    CASE piece.kind = "text" -> <<"text">>
      [] piece.kind = "bare" -> CreateBare(IF piece.of = "own" THEN own ELSE other)
      [] piece.kind = "data" -> CreateData(IF piece.of = "own" THEN own ELSE other, piece.data)
      [] piece.kind = "broken" -> MarkerAround(IF piece.of = "own" THEN own ELSE other, BrokenJson)
      [] piece.kind = "spelled-bare" -> CreateData(other, SpelledPayload(CreateBare(own)))
      [] piece.kind = "spelled-data" ->
             CreateData(other, SpelledPayload(MarkerAround(own, <<"{", "}">>)))

RECURSIVE Document(_, _, _, _)
Document(pieces, sep, own, other) ==
    IF pieces = <<>> THEN <<>>
    ELSE IF Len(pieces) = 1 THEN PieceText(pieces[1], own, other)
    ELSE PieceText(pieces[1], own, other) \o sep \o Document(Tail(pieces), sep, own, other)

MarkInit ==
    /\ NotMarkIdle
    /\ m_type \in MarkerTypes
    /\ m_other \in MarkerTypes \ {m_type}
    /\ m_pieces \in SeqsUpTo(Pieces, MaxPieces)
    /\ m_sep \in {<<" ">>, <<"\n">>}
    /\ m_text = Document(m_pieces, m_sep, m_type, m_other)
    /\ m_op \in {"exists_in", "extract", "extract_all"}
    /\ m_exists = FALSE /\ m_extract = PyNone /\ m_all = <<>>
    /\ kpc = "input"

ExistsIn ==
    /\ kpc = "input" /\ m_op = "exists_in"
    /\ m_exists' = exists_in(m_type, m_text)
    /\ kpc' = "done"
    /\ UNCHANGED <<m_type, m_other, m_pieces, m_sep, m_text, m_op, m_extract, m_all>>
    /\ UNCHANGED notMarkVars

Extract ==
    /\ kpc = "input" /\ m_op = "extract"
    /\ m_extract' = extract(m_type, m_text)
    /\ kpc' = "done"
    /\ UNCHANGED <<m_type, m_other, m_pieces, m_sep, m_text, m_op, m_exists, m_all>>
    /\ UNCHANGED notMarkVars

ExtractAll ==
    /\ kpc = "input" /\ m_op = "extract_all"
    /\ m_all' = extract_all(m_type, m_text)
    /\ kpc' = "done"
    /\ UNCHANGED <<m_type, m_other, m_pieces, m_sep, m_text, m_op, m_exists, m_extract>>
    /\ UNCHANGED notMarkVars

MarkNext == ExistsIn \/ Extract \/ ExtractAll
SpecMark == MarkInit /\ [][MarkNext]_vars

\* the pieces of the document that are markers of the type asked about
OwnMarkers == {k \in 1..Len(m_pieces) : m_pieces[k].of = "own"}
\* those that carry a payload text, parseable or not
OwnPayloadBearing == {k \in OwnMarkers : m_pieces[k].kind \in {"data", "broken"}}

RECURSIVE PayloadsAt(_, _)
PayloadsAt(k, ks) ==
    IF k > Len(m_pieces) THEN <<>>
    ELSE (IF k \in ks THEN <<m_pieces[k].data>> ELSE <<>>) \o PayloadsAt(k + 1, ks)

\* the parseable occurrences
OwnParseable == {k \in OwnMarkers : m_pieces[k].kind = "data"}

\* what extract owes: the payload of the first payload-bearing occurrence,
\* None when it is not parseable or there is none
FirstPayload ==
    IF OwnPayloadBearing = {} THEN PyNone
    ELSE LET k == CHOOSE x \in OwnPayloadBearing : \A y \in OwnPayloadBearing : x <= y
         IN  IF m_pieces[k].kind = "data" THEN [none |-> FALSE, value |-> m_pieces[k].data]
             ELSE PyNone

\* no marker of the type is followed by another "-->" on its line: every
\* piece on a line of its own, no payload containing "-->"
OneMarkerPerLine ==
    /\ m_sep = <<"\n">>
    /\ \A k \in 1..Len(m_pieces) : m_pieces[k].data # P_Arrow

\* C15: extract returns the payload of the first payload-bearing occurrence
\* of the tag, None when that payload is not parseable, None when there is no
\* payload-bearing occurrence.
C15_ExtractFirstPayload ==
    (kpc = "done" /\ m_op = "extract") => m_extract = FirstPayload

\* the same on documents with one marker per line
C15_ExtractFirstPayloadPerLine ==
    (kpc = "done" /\ m_op = "extract" /\ OneMarkerPerLine) => m_extract = FirstPayload

\* C16: extract_all returns the payloads of the parseable occurrences of the
\* tag, all of them and in document order.
C16_ExtractAllParseable ==
    (kpc = "done" /\ m_op = "extract_all") => m_all = PayloadsAt(1, OwnParseable)

\* the same on documents with one marker per line
C16_ExtractAllPerLine ==
    (kpc = "done" /\ m_op = "extract_all" /\ OneMarkerPerLine)
        => m_all = PayloadsAt(1, OwnParseable)

(***************************************************************************)
(* risk_assessment.py: extract_risk_from_ai_analysis.  The text is a       *)
(* sequence of units; a unit of Japanese text or an emoji is written as an *)
(* ASCII gloss:                                                            *)
(*   "overall" 総合   "risk" リスク   "verdict" 判定   "level" レベル      *)
(*   "measures" 推奨対策   "AI" AI   "analysis" 分析   "failed" 失敗       *)
(*   "error:" エラー:   "timed-out" がタイムアウト   "extreme" 極          *)
(*   "low" 低   "mid" 中   "high" 高   "zero" ゼロ   "almost" ほぼ         *)
(*   "urgent" 緊急   "unevaluated" 未評価   "[" 「   "]" 」                *)
(*   "fw-colon" ：   "green" 🟢   "yellow" 🟡   "red" 🔴   "cross" ❌      *)
(*   "siren" 🚨                                                            *)
(* No unit contains part of a keyword or of a pattern literal, so `in` and *)
(* the regular expressions act on units as on characters.                  *)
(***************************************************************************)
\* str.strip() on text with blanks and newlines
RECURSIVE StripSpace(_)
StripSpace(s) ==
    IF s = <<>> THEN s
    ELSE IF IsSpace(Head(s)) THEN StripSpace(Tail(s))
    ELSE IF IsSpace(s[Len(s)]) THEN StripSpace(SubSeq(s, 1, Len(s) - 1))
    ELSE s

\* the literals of the structured header pattern, in order
HeaderLit(k) ==
    CASE k = 0 -> <<"---", "RISK_ASSESSMENT_START", "---">>
      [] k = 1 -> <<"RISK_LEVEL:">>
      [] k = 2 -> <<"CONFIDENCE:">>
      [] k = 3 -> <<"PRIMARY_REASON:">>
      [] k = 4 -> <<"---", "RISK_ASSESSMENT_END", "---">>

\* \s*\n followed by literal k, p the index the \s* starts at, r the index
\* after the run of \s: the index after the literal, 0 for no match
LiteralAfterRun(text, p, r, k) ==
    IF r > p /\ text[r - 1] = "\n" /\ HasAt(text, r, HeaderLit(k))
    THEN r + Len(HeaderLit(k)) ELSE 0

NewlineThen(text, p, k) == LiteralAfterRun(text, p, SkipSpaces(text, p), k)

\* the pattern behind literal k (index p) matches: (.+?) takes some units up
\* to ge, \s*\n and literal k + 1 follow, and so on up to the END literal
RECURSIVE TailOk(_, _, _)
TailOk(text, p, k) ==
    IF p = 0 THEN FALSE
    ELSE IF k = 4 THEN TRUE
    ELSE \E ge \in p..Len(text) : TailOk(text, NewlineThen(text, ge + 1, k + 1), k + 1)

\* group 1 reaches index ge - 1 so far; (.+?) is lazy, with re.DOTALL: it
\* ends at the first ge behind which the rest of the pattern matches
RECURSIVE LevelEnd(_, _)
LevelEnd(text, ge) ==
    IF ge > Len(text) THEN 0
    ELSE IF TailOk(text, NewlineThen(text, ge + 1, 2), 2) THEN ge
    ELSE LevelEnd(text, ge + 1)

NoHeader == [ok |-> FALSE, risk_level |-> <<>>]

\* \s* behind "RISK_LEVEL:" is greedy: group 1 starts at gs, the latest start
\* not yet tried (p is the index behind the literal)
RECURSIVE LevelStart(_, _, _)
LevelOrEarlier(text, p, gs, ge) ==
    IF ge > 0 THEN [ok |-> TRUE, risk_level |-> StripSpace(SubSeq(text, gs, ge))]
    ELSE LevelStart(text, p, gs - 1)

LevelStart(text, p, gs) ==
    IF gs < p THEN NoHeader ELSE LevelOrEarlier(text, p, gs, LevelEnd(text, gs))

\* the header pattern matched behind "RISK_LEVEL:" (index p, 0 if absent)
HeaderFrom(text, p) == IF p = 0 THEN NoHeader ELSE LevelStart(text, p, SkipSpaces(text, p))

\* the header pattern matched at index i
HeaderAt(text, i) ==
    IF HasAt(text, i, HeaderLit(0)) THEN HeaderFrom(text, NewlineThen(text, i + 3, 1))
    ELSE NoHeader

\* header_match = re.search(...): the leftmost match, from index i on
RECURSIVE HeaderSearch(_, _)
HeaderOrNext(text, i, h) == IF h.ok THEN h ELSE HeaderSearch(text, i + 1)

HeaderSearch(text, i) ==
    IF i > Len(text) THEN NoHeader ELSE HeaderOrNext(text, i, HeaderAt(text, i))

\* config.RISK_ICONS.get(risk_level, yellow)
RiskIcon(risk_level) ==
    CASE risk_level = <<"extreme", "low">> -> "green"
      [] risk_level = <<"low">> -> "green"
      [] risk_level = <<"mid">> -> "yellow"
      [] risk_level = <<"high">> -> "red"
      [] risk_level = <<"Critical">> -> "red"
      [] OTHER -> "yellow"

\* some literal of ws is in text
Mentions(text, ws) == \E w \in ws : Contains(text, w)

FailureWords ==
    {<<"AI", "analysis", "failed">>, <<"AI", "analysis", "error:">>,
     <<"AI", "analysis", "timed-out">>}

\* the lookahead that ends the conclusion of pattern 1 holds at index e
Ends1(text, e) ==
    \/ e = Len(text) + 1
    \/ /\ text[e] = "\n"
       /\ \/ HasAt(text, e + 1, <<"##", "#", " ", "measures">>)
          \/ HasAt(text, e + 1, <<"##">>)
          \/ HasAt(text, e + 1, <<"---">>)

\* the lookahead of patterns 2 and 3
Ends23(text, e) ==
    \/ e = Len(text) + 1
    \/ /\ text[e] = "\n"
       /\ \/ HasAt(text, e + 1, <<"\n">>)
          \/ HasAt(text, e + 1, <<"**">>)
          \/ HasAt(text, e + 1, <<"##", "#">>)

\* [:\s]*: the index after the run of ":" and \s that starts at i
RECURSIVE SkipColons(_, _)
SkipColons(text, i) ==
    IF i <= Len(text) /\ (text[i] = ":" \/ IsSpace(text[i])) THEN SkipColons(text, i + 1)
    ELSE i

\* .*? is lazy: the first index from e on at which the lookahead holds
RECURSIVE LazyEnd(_, _, _)
LazyEnd(text, e, pattern) ==
    IF (IF pattern = 1 THEN Ends1(text, e) ELSE Ends23(text, e)) THEN e
    ELSE LazyEnd(text, e + 1, pattern)

ConclusionLit(pattern) ==
    CASE pattern = 1 -> <<"##", "#", " ", "overall", "risk", "verdict">>
      [] pattern = 2 -> <<"**", "overall", "risk", "level", "**">>
      [] pattern = 3 -> <<"**", "risk", "level", "**">>

\* match.group(0).strip() for the match of a conclusion pattern at index i
ConclusionAt(text, i, pattern) ==
    StripSpace(SubSeq(text, i,
        LazyEnd(text,
                IF pattern = 1 THEN i + Len(ConclusionLit(pattern))
                ELSE SkipColons(text, i + Len(ConclusionLit(pattern))),
                pattern) - 1))

\* re.search(pattern, ai_analysis, ...): <<>> when the pattern has no match
RECURSIVE ConclusionSearch(_, _, _)
ConclusionSearch(text, i, pattern) ==
    IF i > Len(text) THEN <<>>
    ELSE IF HasAt(text, i, ConclusionLit(pattern)) THEN ConclusionAt(text, i, pattern)
    ELSE ConclusionSearch(text, i + 1, pattern)

\* for pattern in conclusion_patterns: the first pattern that matches
RECURSIVE ExtractedConclusion(_, _)
ConclusionOrNext(text, pattern, found) ==
    IF found # <<>> THEN found ELSE ExtractedConclusion(text, pattern + 1)

ExtractedConclusion(text, pattern) ==
    IF pattern > 3 THEN <<>>
    ELSE ConclusionOrNext(text, pattern, ConclusionSearch(text, 1, pattern))

\* the icon of a conclusion
ConclusionIcon(conclusion) ==
    IF Contains(conclusion, <<"low">>) THEN "green"
    ELSE IF Contains(conclusion, <<"mid">>) THEN "yellow"
    ELSE "red"

VeryLowWords ==
    {<<"extreme", "low">>, <<"zero", "risk">>, <<"almost", "zero">>,
     <<"green", " ", "**", "extreme", "low", "risk">>}
LowWords ==
    {<<"**", "low", "**">>, <<"low", "risk">>, <<"risk", "level", "[", "low", "]">>,
     <<"risk", "level", "fw-colon", "low">>, <<"LOW">>}
MidWords ==
    {<<"**", "mid", "**">>, <<"mid", "risk">>, <<"risk", "level", "[", "mid", "]">>,
     <<"risk", "level", "fw-colon", "mid">>, <<"MEDIUM">>, <<"CVSS ", "5.">>, <<"CVSS ", "6.">>}
HighWords ==
    {<<"**", "high", "**">>, <<"high", "risk">>, <<"risk", "level", "[", "high", "]">>,
     <<"risk", "level", "fw-colon", "high">>, <<"HIGH">>, <<"CVSS ", "7.">>}
CriticalWords ==
    {<<"Critical">>, <<"critical">>, <<"siren", " ", "Critical">>, <<"urgent">>,
     <<"CVSS ", "9.">>, <<"CVSS ", "8.">>}

\* a variant of the ladder that tests Critical first
KeywordLevel_CriticalFirst(text) ==
    IF Mentions(text, CriticalWords) THEN <<"Critical", "(", "urgent", ")">>
    ELSE IF Mentions(text, VeryLowWords) THEN <<"extreme", "low", "risk">>
    ELSE IF Mentions(text, LowWords) THEN <<"low", "risk">>
    ELSE IF Mentions(text, MidWords) THEN <<"mid", "risk">>
    ELSE IF Mentions(text, HighWords) THEN <<"high", "risk">>
    ELSE <<"unevaluated">>

\* the if / elif ladder over the whole text
KeywordLevel(text) ==
    IF Mentions(text, VeryLowWords) THEN <<"extreme", "low", "risk">>
    ELSE IF Mentions(text, LowWords) THEN <<"low", "risk">>
    ELSE IF Mentions(text, MidWords) THEN <<"mid", "risk">>
    ELSE IF Mentions(text, HighWords) THEN <<"high", "risk">>
    ELSE IF Mentions(text, CriticalWords) THEN <<"Critical", "(", "urgent", ")">>
    ELSE <<"unevaluated">>

\* the icon the ladder sets with a level
KeywordIcon(risk_level) ==
    IF risk_level \in {<<"extreme", "low", "risk">>, <<"low", "risk">>} THEN "green"
    ELSE IF risk_level = <<"mid", "risk">> THEN "yellow"
    ELSE "red"

Verdict(rule, icon, risk_level, cve_info) ==
    [rule |-> rule, icon |-> icon, risk_level |-> risk_level, cve_info |-> cve_info]

\* the fallback over the whole text
KeywordVerdict(risk_level, cves) ==
    Verdict("keyword", KeywordIcon(risk_level), risk_level, cves # <<>>)

\* behind the failure test: the conclusion, if one was extracted
ConclusionVerdict(text, conclusion, cves) ==
    IF conclusion # <<>>
    THEN Verdict("conclusion", ConclusionIcon(conclusion), conclusion, cves # <<>>)
    ELSE KeywordVerdict(KeywordLevel(text), cves)

\* behind the header test
FallbackVerdict(text, cves) ==
    IF Mentions(text, FailureWords)
    THEN Verdict("failed", "cross", <<"analysis", "failed">>, FALSE)
    ELSE ConclusionVerdict(text, ExtractedConclusion(text, 1), cves)

HeaderVerdict(text, header, cves) ==
    IF header.ok
    THEN Verdict("header", RiskIcon(header.risk_level), header.risk_level, cves # <<>>)
    ELSE FallbackVerdict(text, cves)

\* extract_risk_from_ai_analysis: which rule answered, with which icon and level
extract_risk_from_ai_analysis(text, cves) ==
    HeaderVerdict(text, HeaderSearch(text, 1), cves)

(***************************************************************************)
(* The specification of the risk verdict: every text of up to MaxFragments *)
(* fragments, one fragment to a line, with and without CVEs.               *)
(***************************************************************************)
MaxFragments == 3

\* a complete structured block, level 高
F_Header ==
    HeaderLit(0) \o <<"\n", "RISK_LEVEL:", " ", "high", "\n", "CONFIDENCE:", " ", "text",
                      "\n", "PRIMARY_REASON:", " ", "text", "\n">> \o HeaderLit(4)
\* a block that is never closed, level 低
F_OpenHeader == HeaderLit(0) \o <<"\n", "RISK_LEVEL:", " ", "low">>
F_Failed == <<"AI", "analysis", "failed">>
F_TimedOut == <<"AI", "analysis", "timed-out">>
\* "### 総合リスク判定: 中"
F_Heading == <<"##", "#", " ", "overall", "risk", "verdict", ":", " ", "mid">>
\* "**総合リスクレベル**: 低"
F_Overall == <<"**", "overall", "risk", "level", "**", ":", " ", "low">>
\* "**リスクレベル**: 高"
F_Level == <<"**", "risk", "level", "**", ":", " ", "high">>
F_VeryLow == <<"text", "extreme", "low", "risk">>
F_Low == <<"low", "risk", "text">>
F_Mid == <<"CVSS ", "5.", "3">>
F_High == <<"HIGH">>
F_Critical == <<"Critical", " ", "text">>
F_Text == <<"text", " ", "low">>
F_Section == <<"##", " ", "text">>
F_Blank == <<>>

HeaderFragments == {F_Header}
FailureFragments == {F_Failed, F_TimedOut}
ConclusionFragments == {F_Heading, F_Overall, F_Level}
PlainFragments == {F_OpenHeader, F_Text, F_Section, F_Blank}
Fragments ==
    HeaderFragments \cup FailureFragments \cup ConclusionFragments \cup PlainFragments
        \cup {F_VeryLow, F_Low, F_Mid, F_High, F_Critical}

\* "\n".join(parts)
RECURSIVE JoinLines(_)
JoinLines(parts) ==
    IF parts = <<>> THEN <<>>
    ELSE IF Len(parts) = 1 THEN parts[1]
    ELSE parts[1] \o <<"\n">> \o JoinLines(Tail(parts))

RiskInit ==
    /\ r_parts \in SeqsUpTo(Fragments, MaxFragments)
    /\ r_cves \in {<<>>, <<CVE_A>>}
    /\ ai_analysis = JoinLines(r_parts)
    /\ r_verdict = NoVerdict
    /\ vpc = "input"
    /\ NotRiskIdle

\* the call extract_risk_from_ai_analysis(ai_analysis, vuln_data, cves)
ExtractRisk ==
    /\ vpc = "input"
    /\ r_verdict' = extract_risk_from_ai_analysis(ai_analysis, r_cves)
    /\ vpc' = "done"
    /\ UNCHANGED <<r_parts, r_cves, ai_analysis>>
    /\ UNCHANGED notRiskVars

RiskNext == ExtractRisk

SpecRisk == RiskInit /\ [][RiskNext]_vars

\* the rules in their order: 1 header, 2 failure marker, 3 conclusion, 4 ladder
RuleOf(fragment) ==
    IF fragment \in HeaderFragments THEN 1
    ELSE IF fragment \in FailureFragments THEN 2
    ELSE IF fragment \in ConclusionFragments THEN 3
    ELSE 4

RuleName(k) ==
    CASE k = 1 -> "header" [] k = 2 -> "failed" [] k = 3 -> "conclusion" [] k = 4 -> "keyword"

\* the rung of the ladder a fragment stands on, 6 for none
RungOf(fragment) ==
    CASE fragment = F_VeryLow -> 1
      [] fragment = F_Low -> 2
      [] fragment = F_Mid -> 3
      [] fragment = F_High -> 4
      [] fragment = F_Critical -> 5
      [] OTHER -> 6

RungLevel(k) ==
    CASE k = 1 -> <<"extreme", "low", "risk">>
      [] k = 2 -> <<"low", "risk">>
      [] k = 3 -> <<"mid", "risk">>
      [] k = 4 -> <<"high", "risk">>
      [] k = 5 -> <<"Critical", "(", "urgent", ")">>
      [] k = 6 -> <<"unevaluated">>

\* the least of a set of numbers and of a bound
Least(S, bound) == IF \E x \in S : TRUE THEN CHOOSE x \in S : \A y \in S : x <= y ELSE bound

\* the rule and the rung a set of fragments calls for, whatever their order
FirstRule(parts) == Least({RuleOf(parts[i]) : i \in DOMAIN parts}, 4)
FirstRung(parts) == Least({RungOf(parts[i]) : i \in DOMAIN parts}, 6)

\* C17: the verdict comes from the first applicable rule of the order
\* header, failure marker, conclusion, keyword ladder, wherever the
\* triggers stand in the text; on the ladder the lowest rung mentioned wins
\* (very low, low, medium, high, Critical), so low beats critical, and a text
\* that triggers nothing gets the unevaluated verdict.
C17_FirstApplicableRule ==
    vpc = "done" =>
        /\ r_verdict.rule = RuleName(FirstRule(r_parts))
        /\ r_verdict.rule = "keyword" =>
               /\ r_verdict.risk_level = RungLevel(FirstRung(r_parts))
               /\ r_verdict.icon = (IF FirstRung(r_parts) <= 2 THEN "green"
                                    ELSE IF FirstRung(r_parts) = 3 THEN "yellow" ELSE "red")

\* a critical keyword on the first line, a low keyword on the second: low
C17_Witness ==
    /\ vpc = "done"
    /\ r_parts = <<F_Critical, F_Low>>
    /\ r_verdict.rule = "keyword"
    /\ r_verdict.risk_level = <<"low", "risk">>

\* a text that triggers no rule: unevaluated
C17_WitnessUnevaluated ==
    /\ vpc = "done"
    /\ r_parts = <<F_Text, F_OpenHeader>>
    /\ r_verdict = Verdict("keyword", "red", <<"unevaluated">>, r_cves # <<>>)

\* the first alert of the feed that owes triple t, 0 if none does
FirstAlert(t) == Least({k \in 1..Len(alerts) : SoundFor(t, alerts[k])}, 0)

\* the first place of CVE cve among the identifiers of an alert
IdPosition(alert, cve) ==
    Least({i \in 1..Len(Identifiers(alert)) : Identifiers(alert)[i] = CveId(cve)}, 0)

\* t1 is discovered before t2: by an earlier alert, or by the same alert
\* from an earlier identifier
DiscoveredBefore(t1, t2) ==
    \/ FirstAlert(t1) < FirstAlert(t2)
    \/ /\ FirstAlert(t1) = FirstAlert(t2)
       /\ FirstAlert(t1) > 0
       /\ IdPosition(alerts[FirstAlert(t1)], t1[1]) < IdPosition(alerts[FirstAlert(t1)], t2[1])

\* C18: the result lists its triples in the order of first discovery: by
\* the position in the feed of the first alert that produced the triple and,
\* inside one alert, by the position of the CVE identifier.
C18_DiscoveryOrder ==
    mpc = "done" =>
        \A i, j \in 1..Len(result) :
            i < j => /\ FirstAlert(result[i]) > 0
                     /\ DiscoveredBefore(result[i], result[j])

\* alert 2 stands before alert 1 in the feed and alert 1 lists two CVEs: the
\* result follows the feed, it is sorted neither by alert number nor by CVE
C18_Witness ==
    /\ mpc = "done"
    /\ result = << <<CVE_A, 2, "https://gh/alerts/2">>, <<CVE_A, 1, "https://gh/alerts/1">>,
                   <<CVE_B, 1, "https://gh/alerts/1">> >>

\* "for alert in alerts" from alerts[1] on, st the exception state and
\* matching_cves so far
RECURSIVE ScanFeed(_, _, _, _, _)
ScanFeed(st, feed, pkg, from, to) ==
    IF st.exc # "" \/ feed = <<>> THEN st
    ELSE ScanFeed(ScanOne(Head(feed), st.cves, pkg, from, to), Tail(feed), pkg, from, to)

\* what a scan returns: matching_cves, or [] from "except Exception"
Returned(st) == IF st.exc # "" THEN <<>> ELSE st.cves

\* find_cves_by_package_and_version on a feed already fetched
find_cves(feed, pkg, from, to) ==
    Returned(ScanFeed([exc |-> "", cves |-> <<>>], feed, pkg, from, to))

\* the versions a larger bump may land on
V_4_18 == <<"4", ".", "1", "8">>
V_4_17_21_0 == V_4_17_21 \o <<".", "0">>
LaterVersions == ToVersions \cup {V_4_17_22, V_5_0_0, V_4_18, V_4_17_21_0}

\* every triple of l is in m
AllIn(l, m) == \A i \in 1..Len(l) : InList(l[i], m)

\* C19: for a feed of well-formed records, every triple returned for
\* to_version is returned for every valid version t2 with
\* compare_versions(t2, to_version) >= 0.
C19_MonotoneInToVersion ==
    (mpc = "done" /\ \A k \in 1..Len(alerts) : WellFormed(alerts[k])) =>
        /\ result = find_cves(alerts, package_name, from_version, to_version)
        /\ \A t2 \in LaterVersions :
              (/\ compare_versions(t2, to_version).exc = ""
               /\ compare_versions(t2, to_version).value >= 0)
                  => AllIn(result, find_cves(alerts, package_name, from_version, t2))

\* a triple returned for 4.17.21, a feed of well-formed records, one of
\* which is patched only in 4.17.22: for 4.17.22 it brings a further triple
C19_Witness ==
    /\ mpc = "done"
    /\ \A k \in 1..Len(alerts) : WellFormed(alerts[k])
    /\ to_version = V_4_17_21
    /\ Len(result) > 0
    /\ Len(find_cves(alerts, package_name, from_version, V_4_17_22)) > Len(result)

\* the document holds one marker of the type, written by create with a
\* payload or without, and plain text around it
OneCreatedMarker ==
    /\ \E k \in 1..Len(m_pieces) : OwnMarkers = {k} /\ m_pieces[k].kind \in {"data", "bare"}
    /\ \A k \in 1..Len(m_pieces) : k \notin OwnMarkers => m_pieces[k].kind = "text"

\* the piece that marker is
CreatedMarker == m_pieces[CHOOSE k \in 1..Len(m_pieces) : k \in OwnMarkers]

\* what extract owes for it: the payload, None for the bare marker
CreatedPayload ==
    IF CreatedMarker.kind = "data" THEN [none |-> FALSE, value |-> CreatedMarker.data]
    ELSE PyNone

\* C20: on the text create returns, alone or inside plain text, exists_in is
\* true and extract returns the payload given to create, None for the bare
\* marker.
C20_RoundTrip ==
    (kpc = "done" /\ OneCreatedMarker) =>
        /\ m_op = "exists_in" => m_exists
        /\ m_op = "extract" => m_extract = CreatedPayload

\* the same for the payloads no value of which contains "-->"
C20_RoundTripWithoutArrow ==
    (kpc = "done" /\ OneCreatedMarker /\ CreatedMarker.data # P_Arrow) =>
        /\ m_op = "exists_in" => m_exists
        /\ m_op = "extract" => m_extract = CreatedPayload

(***************************************************************************)
(* Documents whose markers were all created for one tag (m_other), asked   *)
(* about another tag (m_type): the same three operations.                  *)
(***************************************************************************)
\* the pieces of such a document: markers of the other tag, bare, with a
\* payload, with a payload a value of which spells a marker of the asked tag,
\* with a payload text json.loads rejects, and plain text
ForeignPieces ==
    {[kind |-> "bare", of |-> "other", data |-> <<>>],
     [kind |-> "broken", of |-> "other", data |-> <<>>],
     [kind |-> "spelled-bare", of |-> "other", data |-> <<>>],
     [kind |-> "spelled-data", of |-> "other", data |-> <<>>],
     [kind |-> "text", of |-> "", data |-> <<>>]}
    \cup [kind : {"data"}, of : {"other"}, data : {P_Lodash, P_Quoted, P_Arrow}]

IsolationInit ==
    /\ NotMarkIdle
    /\ m_type \in MarkerTypes
    /\ m_other \in MarkerTypes \ {m_type}
    /\ m_pieces \in SeqsUpTo(ForeignPieces, MaxPieces)
    /\ m_sep \in {<<" ">>, <<"\n">>}
    /\ m_text = Document(m_pieces, m_sep, m_type, m_other)
    /\ m_op \in {"exists_in", "extract", "extract_all"}
    /\ m_exists = FALSE /\ m_extract = PyNone /\ m_all = <<>>
    /\ kpc = "input"

IsolationNext == ExistsIn \/ Extract \/ ExtractAll
SpecIsolation == IsolationInit /\ [][IsolationNext]_vars

\* the asked tag finds nothing
FindsNothing ==
    /\ m_op = "exists_in" => ~m_exists
    /\ m_op = "extract" => m_extract = PyNone
    /\ m_op = "extract_all" => m_all = <<>>

\* no payload of the document spells a marker
NothingSpelled ==
    \A k \in 1..Len(m_pieces) : m_pieces[k].kind \notin {"spelled-bare", "spelled-data"}

\* C21: on a document whose only markers were created for another tag,
\* exists_in is false, extract is None and extract_all is empty.
C21_TagsIsolated == kpc = "done" => FindsNothing

\* the same for the documents no payload of which spells a marker
C21_IsolatedUnlessSpelled == (kpc = "done" /\ NothingSpelled) => FindsNothing

\* analyzed asked on a document that holds markers of analyzed-package only
C21_PrefixTagReached ==
    /\ kpc = "done" /\ NothingSpelled /\ FindsNothing
    /\ m_type = "analyzed" /\ m_other = "analyzed-package"
    /\ \E k \in 1..Len(m_pieces) : m_pieces[k].kind = "data"
    /\ \E k \in 1..Len(m_pieces) : m_pieces[k].kind = "bare"

(***************************************************************************)
(* The failed write of the PR body.                                        *)
(***************************************************************************)
\* this step is run r's update_pr_body failing: the call returns False
FailedWrite(r) == pc[r] = "write" /\ pc'[r] = "done" /\ ret'[r] = "False"

\* the marker comes into the stored body by successful writes only
MarkerOnlyByWrite ==
    (~has_cve_section(stored) /\ has_cve_section(stored')) => okWrites' = okWrites + 1

\* run r's call has ended in an attempt to write: a failed one, or a PATCH
AttemptedWrite(r) == ret[r] = "False" \/ callWrote[r]

\* C22 as stated: a failing update_pr_body returns False and leaves the
\* stored body unchanged and without the marker, so that every call begun
\* after a failure passes the marker-absent check and attempts the write;
\* the marker is in the stored body only after a write that succeeded.
C22_FailedWriteLeavesNoMarker ==
    /\ [][\A r \in Runs :
            FailedWrite(r) => stored' = stored /\ ~has_cve_section(stored')]_vars
    /\ [](\A r \in Runs :
            startedAfterFail[r] =>
                /\ ~has_cve_section(pr_body[r])
                /\ pc[r] = "done" => AttemptedWrite(r))
    /\ [][MarkerOnlyByWrite]_vars

\* C22, amended: a failing update_pr_body returns False and leaves the stored
\* body unchanged; when the stored body is still the one the failing run
\* read (no other run has written meanwhile), it is without the marker; a
\* call begun after a failure on a body without the marker never returns
\* without having attempted the write; the marker comes into the stored body
\* by successful writes only.
C22_FailedWriteRetryable ==
    /\ [][\A r \in Runs :
            FailedWrite(r) =>
                /\ stored' = stored
                /\ okWrites' = okWrites
                /\ stored = pr_body[r] => ~has_cve_section(stored')]_vars
    /\ [](\A r \in Runs :
            (startedAfterFail[r] /\ ~has_cve_section(pr_body[r])) =>
                /\ pc[r] \in {"check", "write", "done"}
                /\ pc[r] = "done" => AttemptedWrite(r))
    /\ [][MarkerOnlyByWrite]_vars

\* after a failed write and no successful one, a later call has read the
\* stored body, found it without the marker and stands at its write
C22_Witness ==
    \E r \in Runs :
        /\ startedAfterFail[r] /\ okWrites = 0
        /\ pr_body[r] = stored /\ ~has_cve_section(stored)
        /\ pc[r] = "write"

\* a write fails after the other run has written: the stored body holds the
\* marker, and it is the other run's body
C22_FailureAfterOtherWrite ==
    \E r \in Runs :
        /\ pc[r] = "done" /\ ret[r] = "False" /\ ~startedAfterWrite[r]
        /\ has_cve_section(stored) /\ ~has_cve_section(pr_body[r])

====
